---- MODULE Spec2Model ----
(***************************************************************************)
(* KeywordLens AI: the classification-and-review pipeline.                 *)
(*                                                                         *)
(* The model follows the client-side pipeline: App (src/App.tsx) mounts    *)
(* the ProcessingDashboard of src/components/FileUpload.tsx (lines         *)
(* 252-597), which analyses the product image (analyzeProductImage,        *)
(* src/unnamed/part_001 with the GLM fallback of src/services/glm.ts),     *)
(* scores the keywords in batches (processBatch, batchScoreKeywords and    *)
(* machineVerifyKeyword under withRetry) and hands the processed items to  *)
(* the local ReviewInterface (src/unnamed/part_002).                       *)
(*                                                                         *)
(* The backend variant (src/components/ProcessingDashboard.tsx and the     *)
(* ReviewInterface of src/components/ReviewInterface.tsx and               *)
(* src/unnamed/part_003, over src/services/api.ts) talks to server.py,     *)
(* which is not among the sources: the session it keeps is modelled from   *)
(* the specification (definitions named Srv...), the client from its code. *)
(*                                                                         *)
(* Scores are JavaScript numbers; the model keeps them as integers in      *)
(* units of 1/ScoreUnit, so that 79.999 and 30.001 are representable.      *)
(* Delays are kept in milliseconds.  generateId() values are omitted:      *)
(* an item is identified by its keyword.                                   *)
(*                                                                         *)
(* Left out: the click on the navbar logo (setStep(UPLOAD) from any step), *)
(* after which a second dashboard with its own queueRef can be mounted     *)
(* while the promises of the first are pending; handleFinish of App, which *)
(* no component calls; the log lines that report no error.                 *)
(***************************************************************************)
EXTENDS Integers, Sequences, FiniteSets, TLC

\* ------------------------------------------------------------------ bounds
NumKeywords == 12      \* keywords submitted in one upload
MaxToggles  == 2       \* pause/resume clicks considered
MaxRequests == 1       \* action requests sent to the backend
MaxFetches  == 2       \* fetchState runs under way at once
NumProfiles == 2       \* distinct score assignments the provider may answer
ScoreUnit   == 1000    \* resolution of a score: 1 point = ScoreUnit units
ImgTick     == 5000    \* granularity (ms) of the image-analysis clock

\* ------------------------------------------------------- program constants
BATCH_SIZE     == 10
RETRIES        == 5
INITIAL_DELAY  == 2000
HIGH_CUT       == 80
LOW_CUT        == 30
MAX_SCORE      == 100
GEMINI_TIMEOUT == 15000
MAX_LOGS       == 50

\* ------------------------------------------------------------ enumerations
\* RelevanceStatus (src/types.ts)
PENDING          == "pending"
HIGH_RELEVANCE   == "HIGH_RELEVANCE"
MEDIUM_RELEVANCE == "MEDIUM_RELEVANCE"
LOW_RELEVANCE    == "LOW_RELEVANCE"
MACHINE_VERIFIED == "MACHINE_VERIFIED"
REJECTED         == "REJECTED"
APPROVED         == "APPROVED"

RelevanceStatus ==
  {PENDING, "kept", "deleted", "undecided", "AUTO", HIGH_RELEVANCE,
   MEDIUM_RELEVANCE, LOW_RELEVANCE, MACHINE_VERIFIED, REJECTED, APPROVED}

\* AppStep (src/types.ts)
AppStep == {"UPLOAD", "ANALYSIS", "REVIEW", "EXPORT"}

\* ----------------------------------------------------------------- helpers
Min(a, b) == IF a < b THEN a ELSE b

Take(s, n) == SubSeq(s, 1, Min(n, Len(s)))

Drop(s, n) == SubSeq(s, Min(n, Len(s)) + 1, Len(s))

Range(s) == {s[i] : i \in DOMAIN s}

Remove(f, c) == [x \in (DOMAIN f) \ {c} |-> f[x]]

Put(f, c, v) == [x \in (DOMAIN f) \cup {c} |-> IF x = c THEN v ELSE f[x]]

RECURSIVE Pow2(_)
Pow2(n) == IF n = 0 THEN 1 ELSE 2 * Pow2(n - 1)

\* -------------------------------------------------------------- classifier
\* The score -> status mapping inside processBatch.
ClassifyStrictHigh(score) ==
  IF score > HIGH_CUT * ScoreUnit THEN HIGH_RELEVANCE
  ELSE IF score <= LOW_CUT * ScoreUnit THEN LOW_RELEVANCE
  ELSE MEDIUM_RELEVANCE

Classify(score) ==
  IF score >= HIGH_CUT * ScoreUnit THEN HIGH_RELEVANCE
  ELSE IF score <= LOW_CUT * ScoreUnit THEN LOW_RELEVANCE
  ELSE MEDIUM_RELEVANCE

\* The tier a status stands for in the client: the dashboard's chart and the
\* review statistics group the statuses this way.
TierOfStatus(st) ==
  IF st \in {HIGH_RELEVANCE, MACHINE_VERIFIED} THEN "auto"
  ELSE IF st \in {MEDIUM_RELEVANCE, APPROVED} THEN "manual"
  ELSE IF st \in {LOW_RELEVANCE, REJECTED} THEN "excluded"
  ELSE "none"

\* --------------------------------------------------------------- withRetry
\* An error is the text error.toString().toLowerCase() is applied to, kept
\* as its sequence of lower-cased words; includes(w) is membership of w.
ErrorMsgs ==
  { <<"429", "too", "many", "requests">>,
    <<"rate", "limit", "reached">>,
    <<"400", "bad", "request">> }

Includes(msg, w) == \E i \in DOMAIN msg : msg[i] = w

isQuotaError(msg) ==
  \/ Includes(msg, "429")
  \/ Includes(msg, "quota")
  \/ Includes(msg, "resource exhausted")
  \/ Includes(msg, "limit")

\* The state of one withRetry(operation) call whose operation is awaited:
\* the parameters of the current recursion level and (as history) the number
\* of invocations of the operation and the delays waited so far.
NewCall ==
  [retries |-> RETRIES, initialDelay |-> INITIAL_DELAY, attempts |-> 1,
   waits |-> <<>>]

NoCall == [retries |-> 0, initialDelay |-> 0, attempts |-> 0, waits |-> <<>>]

WillRetryAnyError(call, msg) == call.retries > 0

WillRetry(call, msg) == call.retries > 0 /\ isQuotaError(msg)

AfterDelayNotDoubled(call) ==
  [retries |-> call.retries - 1, initialDelay |-> call.initialDelay,
   attempts |-> call.attempts + 1,
   waits |-> Append(call.waits, call.initialDelay)]

\* await delay(initialDelay); return withRetry(operation, retries - 1,
\* initialDelay * 2): the call once the operation is invoked again.  The delay
\* is taken in the step of the failure: nothing reads or writes the state of
\* the call while it lasts.
AfterDelay(call) ==
  [retries |-> call.retries - 1, initialDelay |-> call.initialDelay * 2,
   attempts |-> call.attempts + 1,
   waits |-> Append(call.waits, call.initialDelay)]

\* ------------------------------------------------------------------- state
VARIABLES
  step,               \* App: the AppStep shown
  rawKeywords,        \* App: the submitted keywords (initialKeywords)
  results,            \* App: the items handed to the review
  status,             \* dashboard: analyzing_image | processing_keywords | paused | done
  productContext,     \* dashboard: ProductContext or Null
  processedKeywords,  \* dashboard: the recorded KeywordItems, in recording order
  progress,           \* dashboard: progress * total, i.e. (total - remaining) * 100
  logs,               \* dashboard: the error lines of the log, newest first
  queueRef,           \* dashboard: queueRef.current, the keywords not yet dispatched
  isPausedRef,        \* dashboard: isPausedRef.current
  savedSession,       \* localStorage[SESSION_KEY] or NoSession
  image,              \* the analyzeProductImage call of the dashboard
  chains,             \* the running processBatch chains: id -> position
  nchains,            \* number of chains started so far
  toggles,            \* number of pause/resume clicks so far
  keywords,           \* ReviewInterface: its items
  dispatched,         \* history: the batches handed to batchScoreKeywords
  failedBatches,      \* history: the batches whose processing ended in the catch
  lastError,          \* the failure of an operation under withRetry in the last step, or Null
  recorded,           \* history: the batches whose items were recorded
  lastDecision,       \* history: the last handleDecision that found a card, or Null
  hasSavedSession,    \* App: the banner of an unfinished session is offered
  restoredFrom,       \* history: the session restoreSession read, or Null
  alerts,             \* history: the alert dialogs shown so far
  exported,           \* the file XLSX.writeFile wrote in the last step, or Null
  backendStage,       \* backend variant: off | polling | dashboard (status done) | review
  srvItems,           \* server: the items of the session, in submission order
  manual_queue,       \* server: the review queue, positions in srvItems
  current_manual_index, \* server: the pointer into the review queue, from 0
  reviewScope,        \* server: the tiers of the review pass
  batch_status,       \* server: the phase of the verification sub-pipeline
  pending,            \* requests sent and not yet handled by the server
  fetches,            \* the fetchState runs under way: id -> position
  nrequests,          \* number of action requests sent
  syncIndex,          \* backend ReviewInterface: currentIndex
  syncQueue,          \* backend ReviewInterface: reviewQueue
  isConnected,        \* backend ReviewInterface: isConnected
  lastRefresh,        \* history: what the last completed fetchState read
  lastPoll,           \* the snapshot the dashboard polled in the last step, or Null
  hasStartedAnalysisRef, \* backend dashboard: hasStartedAnalysisRef.current
  hasStartedBackendRef,  \* backend dashboard: hasStartedBackendRef.current
  imageDue,           \* backend dashboard: runs of the image effect not yet made
  backendDue,         \* backend dashboard: runs of the start effect not yet made
  imageCalls,         \* analyzeProductImage calls of the backend dashboard in flight
  analyzeCalls,       \* api.analyze calls in flight
  analyzeSucceeded,   \* history: number of api.analyze calls that succeeded
  polls,              \* getStatus answers on their way to the dashboard, in request order
  backendStatus,      \* backend dashboard: backendStatus, or Null
  configures,         \* configureReview requests in flight: their scopes, in request order
  configured,         \* history: number of configureReview calls that succeeded
  lastRequest,        \* the action or navigate request handled in the last step, or Null
  reply,              \* the answer to lastRequest
  humanDecided,       \* history: the keywords that received a human decision
  verified,           \* history: the keywords that received a verification result
  cScore,             \* classifier check: the score given
  cStatus             \* classifier check: the status obtained

vars ==
  <<step, rawKeywords, results, status, productContext, processedKeywords,
    progress, logs, queueRef, isPausedRef, savedSession, image, chains,
    nchains, toggles, keywords, dispatched, failedBatches, lastError,
    recorded, lastDecision, hasSavedSession, restoredFrom, alerts, exported, backendStage, srvItems, manual_queue,
    current_manual_index, reviewScope, batch_status, pending, fetches,
    nrequests, syncIndex, syncQueue, isConnected,
    lastRefresh, lastPoll, lastRequest, reply, humanDecided, verified, cScore, cStatus,
    hasStartedAnalysisRef, hasStartedBackendRef, imageDue, backendDue,
    imageCalls, analyzeCalls, analyzeSucceeded, polls, backendStatus,
    configures, configured>>

\* An absent value (null) is the empty sequence, a present one <<value>>.
Null == <<>>

NoSession == <<>>

Some(v) == <<v>>

\* The keyword source: a deduplicated ordered list, keywords named 1..n.
UploadedKeywords == [i \in 1..NumKeywords |-> i]

\* What a provider may answer.  A full answer scores every keyword of the
\* batch, in order; the scores come from fixed rows that hold both cuts and
\* their neighbours, the provider picking the row (and its rotation).
Samples ==
  << << MAX_SCORE * ScoreUnit, LOW_CUT * ScoreUnit, HIGH_CUT * ScoreUnit,
        HIGH_CUT * ScoreUnit - 1, 95 * ScoreUnit, LOW_CUT * ScoreUnit + 1,
        95 * ScoreUnit, 90 * ScoreUnit, 81 * ScoreUnit, 85 * ScoreUnit,
        0, LOW_CUT * ScoreUnit >>,
     << HIGH_CUT * ScoreUnit, HIGH_CUT * ScoreUnit - 1, 81 * ScoreUnit,
        85 * ScoreUnit, 81 * ScoreUnit, 95 * ScoreUnit, 90 * ScoreUnit,
        MAX_SCORE * ScoreUnit, 85 * ScoreUnit, 90 * ScoreUnit,
        LOW_CUT * ScoreUnit, 55 * ScoreUnit >> >>

ScoreOf(p, kw) ==
  LET row == Samples[(p % Len(Samples)) + 1]
  IN row[((kw - 1 + (p \div Len(Samples))) % Len(row)) + 1]

FullAnswer(p, batch) ==
  [i \in DOMAIN batch |->
     [keyword |-> batch[i], score |-> ScoreOf(p, batch[i]), reasoning |-> <<"r">>]]

\* batchScoreKeywords returns [] when the response carries no text.
Answers(batch) == {FullAnswer(p, batch) : p \in 0..(NumProfiles - 1)} \cup {<<>>}

\* scores.map(...) of processBatch
NewItems(scores) ==
  [i \in DOMAIN scores |->
     [originalText |-> scores[i].keyword, score |-> scores[i].score,
      reasoning |-> scores[i].reasoning, status |-> Classify(scores[i].score)]]

LowIndexesNotHigh(items) == {i \in DOMAIN items : items[i].status # HIGH_RELEVANCE}

LowIndexes(items) == {i \in DOMAIN items : items[i].status = LOW_RELEVANCE}

\* The item the deep check returns for a LOW_RELEVANCE item.
EnhancedKeepsLow(item, isActuallyRelevant) ==
  IF isActuallyRelevant
  THEN [item EXCEPT !.status = MACHINE_VERIFIED,
                    !.reasoning = Append(item.reasoning, " (Recovered by Deep Check)")]
  ELSE item

Enhanced(item, isActuallyRelevant) ==
  IF isActuallyRelevant
  THEN [item EXCEPT !.status = MACHINE_VERIFIED,
                    !.reasoning = Append(item.reasoning, " (Recovered by Deep Check)")]
  ELSE [item EXCEPT !.status = REJECTED]

EnhancedItemsAll(items, vcalls) ==
  [i \in DOMAIN items |->
     IF i \in DOMAIN vcalls THEN Enhanced(items[i], vcalls[i].result)
     ELSE [items[i] EXCEPT !.status = REJECTED]]

\* enhancedItems, once every deep check of vcalls has resolved
EnhancedItems(items, vcalls) ==
  [i \in DOMAIN items |->
     IF i \in DOMAIN vcalls THEN Enhanced(items[i], vcalls[i].result) ELSE items[i]]

\* addLog
addLog(msg) == logs' = Take(<<msg>> \o logs, MAX_LOGS)

\* What JSON.parse reads back of JSON.stringify(ctx): strings and numbers as
\* they were, the File object as the empty object.
JsonOf(ctx) == [ctx EXCEPT !.imageFile = "{}"]

\* The auto-save effect, run when processedKeywords or productContext is set.
AutoSaved(pk, ctx, old) ==
  IF Len(pk) > 0 /\ ctx # Null
  THEN Some([rawKeywords |-> rawKeywords, processedKeywords |-> pk,
             productContext |-> Some(JsonOf(ctx[1]))])
  ELSE old

\* ------------------------------------------------------------ chain states
ScoringChain(batch) ==
  [pc |-> "scoring", batch |-> batch, call |-> NewCall, items |-> <<>>,
   vcalls |-> <<>>, sawPause |-> FALSE]

TimerChain ==
  [pc |-> "timer", batch |-> <<>>, call |-> NoCall, items |-> <<>>,
   vcalls |-> <<>>, sawPause |-> FALSE]

NewVCall == [call |-> NewCall, done |-> FALSE, result |-> FALSE]

\* A stale session of an earlier run, still in localStorage.
StaleSession ==
  Some(
  [rawKeywords |-> <<101>>,
   processedKeywords |->
     <<[originalText |-> 101, score |-> 90 * ScoreUnit, reasoning |-> <<"r">>,
        status |-> HIGH_RELEVANCE]>>,
   productContext |->
     Some([description |-> <<"old description">>, category |-> <<"old category">>,
      visualFeatures |-> <<"old features">>, imageData |-> "old image",
      imageFile |-> "{}"])])

\* The session of a run of UploadedKeywords that was left while its first
\* batch had no items recorded and its second had: auto-saved, never cleared.
InterruptedSession ==
  LET batch == Drop(UploadedKeywords, BATCH_SIZE)
      items == NewItems(FullAnswer(0, batch))
  IN Some(
     [rawKeywords |-> UploadedKeywords,
      processedKeywords |->
        EnhancedItems(items, [i \in LowIndexes(items) |->
                                 [call |-> NoCall, done |-> TRUE, result |-> i = 1]]),
      productContext |->
        Some([description |-> <<"description by", "gemini">>,
              category |-> <<"category by", "gemini">>,
              visualFeatures |-> <<"features by", "gemini">>,
              imageData |-> "image", imageFile |-> "{}"])])

\* A stored value that is not the JSON of a session.
CorruptSession == Some([text |-> "not JSON"])

\* JSON.parse(saved) returns.
JsonParses(saved) == "rawKeywords" \in DOMAIN saved[1]

\* The backend variant is not in use.
NoBackend ==
  /\ backendStage = "off"
  /\ srvItems = <<>>
  /\ manual_queue = <<>>
  /\ current_manual_index = 0
  /\ reviewScope = [include_manual |-> TRUE, include_auto |-> FALSE,
                    include_excluded |-> FALSE]
  /\ batch_status = "Idle"
  /\ pending = {}
  /\ fetches = <<>>
  /\ nrequests = 0
  /\ syncIndex = 0
  /\ syncQueue = <<>>
  /\ isConnected = TRUE
  /\ lastRefresh = Null
  /\ lastPoll = Null
  /\ lastRequest = Null
  /\ reply = Null
  /\ humanDecided = {}
  /\ verified = {}

\* The backend dashboard is not mounted.
NoDashboard ==
  /\ hasStartedAnalysisRef = FALSE
  /\ hasStartedBackendRef = FALSE
  /\ imageDue = 0
  /\ backendDue = 0
  /\ imageCalls = 0
  /\ analyzeCalls = 0
  /\ analyzeSucceeded = 0
  /\ polls = <<>>
  /\ backendStatus = Null
  /\ configures = <<>>
  /\ configured = 0

IdleImage == [phase |-> "idle", elapsed |-> 0, glmCalls |-> 0, cause |-> "none"]

Init ==
  /\ step = "UPLOAD"
  /\ rawKeywords = <<>>
  /\ results = <<>>
  /\ status = "analyzing_image"
  /\ productContext = Null
  /\ processedKeywords = <<>>
  /\ progress = 0
  /\ logs = <<>>
  /\ queueRef = <<>>
  /\ isPausedRef = FALSE
  /\ savedSession \in {NoSession, StaleSession, InterruptedSession, CorruptSession}
  /\ hasSavedSession = (savedSession # NoSession)
  /\ restoredFrom = Null
  /\ alerts = {}
  /\ image = IdleImage
  /\ chains = <<>>
  /\ nchains = 0
  /\ toggles = 0
  /\ keywords = <<>>
  /\ dispatched = <<>>
  /\ failedBatches = {}
  /\ lastError = Null
  /\ recorded = <<>>
  /\ lastDecision = Null
  /\ exported = Null
  /\ NoBackend
  /\ cScore = 0
  /\ cStatus = "none"
  /\ NoDashboard

\* ------------------------------------------------------------ processBatch
\* The dashboard is mounted in step ANALYSIS; once it is unmounted its state
\* setters and effects do nothing, while its pending promises and timers,
\* queueRef and localStorage live on.
Mounted == step = "ANALYSIS"

processBatchBodyRemaining(c, others, st, queue, total, m) ==
  /\ progress' = IF m THEN Len(queue) * 100 ELSE progress
  /\ IF queue = <<>>
     THEN /\ status' = IF m THEN "done" ELSE st
          /\ savedSession' = NoSession
          /\ chains' = others
          /\ queueRef' = queue
          /\ UNCHANGED dispatched
     ELSE /\ queueRef' = Drop(queue, BATCH_SIZE)
          /\ chains' = Put(others, c, ScoringChain(Take(queue, BATCH_SIZE)))
          /\ dispatched' = Append(dispatched, Take(queue, BATCH_SIZE))
          /\ status' = st
          /\ UNCHANGED savedSession

\* processBatch up to its first await, run by chain c; others are the other
\* chains, st the status at the call, paused the value of
\* isPausedRef.current, queue the value of queueRef.current, total
\* initialKeywords.length and m whether the dashboard is mounted.
processBatchBody(c, others, st, queue, total, m) ==
  /\ progress' = IF m THEN (total - Len(queue)) * 100 ELSE progress
  /\ IF queue = <<>>
     THEN /\ status' = IF m THEN "done" ELSE st
          /\ savedSession' = NoSession
          /\ chains' = others
          /\ queueRef' = queue
          /\ UNCHANGED dispatched
     ELSE /\ queueRef' = Drop(queue, BATCH_SIZE)
          /\ chains' = Put(others, c, ScoringChain(Take(queue, BATCH_SIZE)))
          /\ dispatched' = Append(dispatched, Take(queue, BATCH_SIZE))
          /\ status' = st
          /\ UNCHANGED savedSession

processBatchIgnoringPause(c, others, st, paused, queue, total, m) ==
  processBatchBody(c, others, st, queue, total, m)

processBatch(c, others, st, paused, queue, total, m) ==
  IF paused
  THEN /\ chains' = others
       /\ status' = st
       /\ queueRef' = queue
       /\ UNCHANGED <<progress, dispatched, savedSession>>
  ELSE processBatchBody(c, others, st, queue, total, m)

\* The end of processBatch after the try/catch: the status of the closure is
\* always processing_keywords (the effect returns early otherwise), so the
\* next batch is scheduled unless the pause flag is set.
AfterBatch(c) == IF isPausedRef THEN Remove(chains, c) ELSE Put(chains, c, TimerChain)

\* setProcessedKeywords(prev => [...prev, ...items]) with the auto-save effect
Record(c, items) ==
  IF Mounted
  THEN /\ processedKeywords' = processedKeywords \o items
       /\ savedSession' = AutoSaved(processedKeywords \o items, productContext, savedSession)
       /\ recorded' = Append(recorded, [batch |-> chains[c].batch,
                                        sawPause |-> chains[c].sawPause,
                                        count |-> Len(items)])
  ELSE UNCHANGED <<processedKeywords, savedSession, recorded>>

\* What is noted of a failure of the operation of call: the call as it was
\* when the operation threw msg, and whether withRetry retried or rethrew.
ErrorOf(c, call, msg, stage, retried) ==
  Some([batch |-> chains[c].batch, error |-> msg, stage |-> stage,
        retried |-> retried, retries |-> call.retries,
        attempts |-> call.attempts, waits |-> call.waits,
        resolved |-> Cardinality({j \in DOMAIN chains[c].vcalls : chains[c].vcalls[j].done})])

CatchKeepingScored(c, call, msg, stage) ==
  /\ IF Mounted
     THEN addLog([line |-> "Error processing batch", error |-> msg])
     ELSE UNCHANGED logs
  /\ failedBatches' = failedBatches \cup {chains[c].batch}
  /\ lastError' = ErrorOf(c, call, msg, stage, FALSE)
  /\ chains' = AfterBatch(c)
  /\ processedKeywords' = processedKeywords \o chains[c].items
  /\ UNCHANGED <<savedSession, recorded>>

\* The catch of processBatch: the error is logged, nothing else.
Catch(c, call, msg, stage) ==
  /\ IF Mounted
     THEN addLog([line |-> "Error processing batch", error |-> msg])
     ELSE UNCHANGED logs
  /\ failedBatches' = failedBatches \cup {chains[c].batch}
  /\ lastError' = ErrorOf(c, call, msg, stage, FALSE)
  /\ chains' = AfterBatch(c)
  /\ UNCHANGED <<processedKeywords, savedSession, recorded>>

appVars == <<step, rawKeywords, results, keywords>>

clsVars == <<cScore, cStatus>>

recVars == <<hasSavedSession, restoredFrom, alerts>>

dashVars ==
  <<hasStartedAnalysisRef, hasStartedBackendRef, imageDue, backendDue,
    imageCalls, analyzeCalls, analyzeSucceeded, polls, backendStatus,
    configures, configured>>

revVars == <<lastDecision>>

srvVars ==
  <<backendStage, srvItems, manual_queue, current_manual_index, reviewScope,
    batch_status, pending, fetches, nrequests, syncIndex, syncQueue,
    isConnected, lastRefresh, lastPoll, lastRequest, reply, humanDecided,
    verified>>

\* setTimeout(processBatch, 1500) fires.
TimerFires(c) ==
  /\ c \in DOMAIN chains
  /\ chains[c].pc = "timer"
  /\ processBatch(c, Remove(chains, c), status, isPausedRef, queueRef,
                  Len(rawKeywords), Mounted)
  /\ lastError' = Null
  /\ exported' = Null
  /\ UNCHANGED <<appVars, clsVars, dashVars, recVars, revVars, srvVars, productContext, processedKeywords, logs,
                 isPausedRef, image, nchains, toggles, failedBatches, recorded>>

\* The operation of batchScoreKeywords throws msg.
ScoreFails(c, msg) ==
  /\ c \in DOMAIN chains
  /\ chains[c].pc = "scoring"
  /\ IF WillRetry(chains[c].call, msg)
     THEN /\ chains' = [chains EXCEPT ![c].call = AfterDelay(chains[c].call)]
          /\ lastError' = ErrorOf(c, chains[c].call, msg, "scoring", TRUE)
          /\ UNCHANGED <<logs, failedBatches, processedKeywords, savedSession,
                         recorded>>
     ELSE Catch(c, chains[c].call, msg, "scoring")
  /\ exported' = Null
  /\ UNCHANGED <<appVars, clsVars, dashVars, recVars, revVars, srvVars, status, productContext, progress, queueRef,
                 isPausedRef, image, nchains, toggles, dispatched>>

\* batchScoreKeywords returns scores: the items are classified and the deep
\* checks of the LOW_RELEVANCE items are started together (Promise.all).
ScoreSucceeds(c, scores) ==
  /\ c \in DOMAIN chains
  /\ chains[c].pc = "scoring"
  /\ LET items == NewItems(scores)
         low   == LowIndexes(items)
     IN IF low = {}
        THEN /\ Record(c, items)
             /\ chains' = AfterBatch(c)
        ELSE /\ chains' = [chains EXCEPT ![c].pc = "verifying",
                                         ![c].call = NoCall,
                                         ![c].items = items,
                                         ![c].vcalls = [i \in low |-> NewVCall]]
             /\ UNCHANGED <<processedKeywords, savedSession, recorded>>
  /\ lastError' = Null
  /\ exported' = Null
  /\ UNCHANGED <<appVars, clsVars, dashVars, recVars, revVars, srvVars, status, productContext, progress, logs,
                 queueRef, isPausedRef, image, nchains, toggles, dispatched,
                 failedBatches>>

\* machineVerifyKeyword of item i returns b; when it was the last one pending,
\* the enhanced items of the whole batch are recorded.
VerifyResolves(c, i, b) ==
  /\ c \in DOMAIN chains
  /\ chains[c].pc = "verifying"
  /\ i \in DOMAIN chains[c].vcalls
  /\ ~chains[c].vcalls[i].done
  /\ LET vc == [chains[c].vcalls EXCEPT ![i] = [call |-> NoCall, done |-> TRUE,
                                                result |-> b]]
     IN IF \A j \in DOMAIN vc : vc[j].done
        THEN /\ Record(c, EnhancedItems(chains[c].items, vc))
             /\ chains' = AfterBatch(c)
        ELSE /\ chains' = [chains EXCEPT ![c].vcalls = vc]
             /\ UNCHANGED <<processedKeywords, savedSession, recorded>>
  /\ lastError' = Null
  /\ exported' = Null
  /\ UNCHANGED <<appVars, clsVars, dashVars, recVars, revVars, srvVars, status, productContext, progress, logs,
                 queueRef, isPausedRef, image, nchains, toggles, dispatched,
                 failedBatches>>

\* The operation of machineVerifyKeyword of item i throws msg: it is retried,
\* or Promise.all rejects and the batch ends in the catch.  The deep checks
\* still pending then run on unobserved; the model drops them.
VerifyFails(c, i, msg) ==
  /\ c \in DOMAIN chains
  /\ chains[c].pc = "verifying"
  /\ i \in DOMAIN chains[c].vcalls
  /\ ~chains[c].vcalls[i].done
  /\ IF WillRetry(chains[c].vcalls[i].call, msg)
     THEN /\ chains' = [chains EXCEPT ![c].vcalls[i].call =
                                           AfterDelay(chains[c].vcalls[i].call)]
          /\ lastError' = ErrorOf(c, chains[c].vcalls[i].call, msg, "verifying", TRUE)
          /\ UNCHANGED <<logs, failedBatches, processedKeywords, savedSession,
                         recorded>>
     ELSE Catch(c, chains[c].vcalls[i].call, msg, "verifying")
  /\ exported' = Null
  /\ UNCHANGED <<appVars, clsVars, dashVars, recVars, revVars, srvVars, status, productContext, progress, queueRef,
                 isPausedRef, image, nchains, toggles, dispatched>>

\* togglePause, followed by the keyword effect its setStatus triggers: on
\* resume the effect starts a new processBatch chain; no effect has a cleanup.
togglePause ==
  /\ Mounted
  /\ toggles < MaxToggles
  /\ toggles' = toggles + 1
  /\ \/ /\ status = "paused"
        /\ isPausedRef' = FALSE
        /\ nchains' = nchains + 1
        /\ processBatch(nchains + 1, chains, "processing_keywords", FALSE,
                        queueRef, Len(rawKeywords), TRUE)
     \/ /\ status = "processing_keywords"
        /\ status' = "paused"
        /\ isPausedRef' = TRUE
        /\ chains' = [c \in DOMAIN chains |->
                         IF chains[c].pc \in {"scoring", "verifying"}
                         THEN [chains[c] EXCEPT !.sawPause = TRUE]
                         ELSE chains[c]]
        /\ UNCHANGED <<nchains, progress, queueRef, dispatched, savedSession>>
  /\ lastError' = Null
  /\ exported' = Null
  /\ UNCHANGED <<appVars, clsVars, dashVars, recVars, revVars, srvVars, productContext, processedKeywords, logs,
                 image, failedBatches, recorded>>

\* ----------------------------------------------------- analyzeProductImage
\* What the primary (Gemini) request can end in, and the secondary (GLM) one.
PrimaryOutcomes == {"ok", "no_text", "bad_json", "error"}

SecondaryOutcomes == {"ok", "http_error", "no_content", "bad_json"}

AnalysisOf(backend) ==
  [description |-> <<"description by", backend>>,
   category |-> <<"category by", backend>>,
   features |-> <<"features by", backend>>]

\* ctx of startImageAnalysis
ContextOf(analysis) ==
  [description |-> analysis.description, category |-> analysis.category,
   visualFeatures |-> analysis.features, imageData |-> "image",
   imageFile |-> "File"]

\* setProductContext(ctx); setStatus('processing_keywords'), then the keyword
\* effect, which starts the first processBatch chain.
StartProcessing(ctx, queue, total) ==
  /\ productContext' = ctx
  /\ nchains' = nchains + 1
  /\ processBatch(nchains + 1, chains, "processing_keywords", isPausedRef, queue,
                  total, TRUE)

\* The catch of analyzeProductImage: import('./glm') and one call of
\* analyzeImageWithGlm; a missing ZHIPU_API_KEY makes that call throw at once.
FallBack(cause) ==
  image' = [image EXCEPT !.phase = "secondary", !.glmCalls = image.glmCalls + 1,
                         !.cause = cause]

\* The call once it has settled: the clock and the cause of the fallback are
\* gone with its frame, the count of secondary calls is kept as history.
Returned(img) == [phase |-> "returned", elapsed |-> 0, glmCalls |-> img.glmCalls, cause |-> "none"]

Thrown(img) == [phase |-> "thrown", elapsed |-> 0, glmCalls |-> img.glmCalls, cause |-> "none"]

\* The 15 s clock of the race advances while the primary request is pending.
ImageTick ==
  /\ image.phase = "primary"
  /\ image.elapsed < GEMINI_TIMEOUT
  /\ image' = [image EXCEPT !.elapsed = Min(image.elapsed + ImgTick, GEMINI_TIMEOUT)]
  /\ lastError' = Null
  /\ exported' = Null
  /\ UNCHANGED <<appVars, clsVars, dashVars, recVars, revVars, srvVars, status, productContext, processedKeywords,
                 progress, logs, queueRef, isPausedRef, savedSession, chains,
                 nchains, toggles, dispatched, failedBatches, recorded>>

\* The primary request settles before the timeout promise rejects.
PrimaryResponds(outcome) ==
  /\ image.phase = "primary"
  /\ IF outcome = "ok"
     THEN /\ image' = Returned(image)
          /\ IF Mounted /\ status = "analyzing_image"
             THEN StartProcessing(Some(ContextOf(AnalysisOf("gemini"))), queueRef, Len(rawKeywords))
             ELSE UNCHANGED <<productContext, nchains, progress, queueRef,
                              status, savedSession, chains, dispatched>>
     ELSE /\ FallBack(outcome)
          /\ UNCHANGED <<productContext, nchains, progress, queueRef, status,
                         savedSession, chains, dispatched>>
  /\ lastError' = Null
  /\ exported' = Null
  /\ UNCHANGED <<appVars, clsVars, dashVars, recVars, revVars, srvVars, processedKeywords, logs, isPausedRef,
                 toggles, failedBatches, recorded>>

\* The timeout promise rejects after 15000 ms.
GeminiTimesOut ==
  /\ image.phase = "primary"
  /\ image.elapsed >= GEMINI_TIMEOUT
  /\ FallBack("timeout")
  /\ lastError' = Null
  /\ exported' = Null
  /\ UNCHANGED <<appVars, clsVars, dashVars, recVars, revVars, srvVars, status, productContext, processedKeywords,
                 progress, logs, queueRef, isPausedRef, savedSession, chains,
                 nchains, toggles, dispatched, failedBatches, recorded>>

SecondaryRespondsRetrying(outcome) ==
  /\ image.phase = "secondary"
  /\ IF outcome = "ok"
     THEN image' = Returned(image)
     ELSE image' = [image EXCEPT !.glmCalls = image.glmCalls + 1]
  /\ lastError' = Null
  /\ exported' = Null
  /\ UNCHANGED <<appVars, clsVars, dashVars, recVars, revVars, srvVars, processedKeywords, isPausedRef, toggles,
                 failedBatches, recorded, logs, productContext, nchains,
                 progress, queueRef, status, savedSession, chains, dispatched>>

\* analyzeImageWithGlm settles: its result is returned, or its error is
\* rethrown to startImageAnalysis, which logs it.
SecondaryResponds(outcome) ==
  /\ image.phase = "secondary"
  /\ IF outcome = "ok"
     THEN /\ image' = Returned(image)
          /\ UNCHANGED logs
          /\ IF Mounted /\ status = "analyzing_image"
             THEN StartProcessing(Some(ContextOf(AnalysisOf("glm"))), queueRef, Len(rawKeywords))
             ELSE UNCHANGED <<productContext, nchains, progress, queueRef,
                              status, savedSession, chains, dispatched>>
     ELSE /\ image' = Thrown(image)
          /\ IF Mounted
             THEN addLog([line |-> "Error analyzing image", error |-> <<outcome>>])
             ELSE UNCHANGED logs
          /\ UNCHANGED <<productContext, nchains, progress, queueRef, status,
                         savedSession, chains, dispatched>>
  /\ lastError' = Null
  /\ exported' = Null
  /\ UNCHANGED <<appVars, clsVars, dashVars, recVars, revVars, srvVars, processedKeywords, isPausedRef, toggles,
                 failedBatches, recorded>>

\* --------------------------------------------------------------------- App
\* handleFilesReady, the mount of the dashboard and its image effect up to
\* the first await.  A saved session that holds a product context makes the
\* effect skip the analysis; getAiClient throwing (no API key) falls back at
\* once.
handleFilesReady ==
  /\ step = "UPLOAD"
  /\ step' = "ANALYSIS"
  /\ rawKeywords' = UploadedKeywords
  /\ IF /\ savedSession # NoSession
        /\ JsonParses(savedSession)
        /\ savedSession[1].productContext # Null
        /\ savedSession[1].productContext[1].description # <<>>
     THEN /\ StartProcessing(savedSession[1].productContext, UploadedKeywords,
                             Len(UploadedKeywords))
          /\ UNCHANGED image
     ELSE /\ \E keyOk \in BOOLEAN :
               image' = IF keyOk
                        THEN [image EXCEPT !.phase = "primary"]
                        ELSE [image EXCEPT !.phase = "secondary", !.glmCalls = 1,
                                           !.cause = "no_api_key"]
          /\ queueRef' = UploadedKeywords
          /\ UNCHANGED <<productContext, status, nchains, chains, dispatched,
                         progress, savedSession>>
  /\ lastError' = Null
  /\ exported' = Null
  /\ UNCHANGED <<clsVars, dashVars, recVars, revVars, srvVars, results, keywords, processedKeywords, logs,
                 isPausedRef, toggles, failedBatches, recorded>>

\* The queue of a mounting dashboard: initialKeywords.filter(k =>
\* !initialProcessed.some(pk => pk.originalText === k))
InitialQueue(initialKeywords, initialProcessed) ==
  SelectSeq(initialKeywords,
            LAMBDA k : ~\E i \in DOMAIN initialProcessed :
                           initialProcessed[i].originalText = k)

restoreSessionRequeueAll ==
  /\ step = "UPLOAD"
  /\ hasSavedSession
  /\ savedSession # NoSession
  /\ JsonParses(savedSession)
  /\ LET data == savedSession[1]
     IN /\ rawKeywords' = data.rawKeywords
        /\ processedKeywords' = data.processedKeywords
        /\ restoredFrom' = Some(data)
        /\ StartProcessing(data.productContext, data.rawKeywords, Len(data.rawKeywords))
  /\ step' = "ANALYSIS"
  /\ hasSavedSession' = FALSE
  /\ lastError' = Null
  /\ exported' = Null
  /\ UNCHANGED <<clsVars, dashVars, revVars, srvVars, results, keywords, logs, isPausedRef,
                 image, toggles, failedBatches, recorded, alerts>>

restoreSessionKeepingCorrupt ==
  /\ step = "UPLOAD"
  /\ hasSavedSession
  /\ savedSession # NoSession
  /\ IF JsonParses(savedSession)
     THEN LET data == savedSession[1]
          IN /\ rawKeywords' = data.rawKeywords
             /\ processedKeywords' = data.processedKeywords
             /\ restoredFrom' = Some(data)
             /\ StartProcessing(data.productContext,
                                InitialQueue(data.rawKeywords, data.processedKeywords),
                                Len(data.rawKeywords))
             /\ step' = "ANALYSIS"
             /\ UNCHANGED alerts
     ELSE /\ alerts' = alerts \cup {"Could not restore session due to data corruption."}
          /\ UNCHANGED <<step, rawKeywords, processedKeywords, restoredFrom,
                         productContext, nchains, chains, status, queueRef,
                         progress, dispatched, savedSession>>
  /\ hasSavedSession' = FALSE
  /\ lastError' = Null
  /\ exported' = Null
  /\ UNCHANGED <<clsVars, dashVars, revVars, srvVars, results, keywords, logs, isPausedRef,
                 image, toggles, failedBatches, recorded>>

\* "Resume" of the banner: restoreSession, the mount of the dashboard with the
\* restored items and its image effect, which finds the stored context and
\* goes on to the keywords.  A stored session always holds a context (the
\* auto-save writes none without one).
\* When JSON.parse throws, no setter has run: the catch block shows the alert
\* and calls clearSession.  "if (!saved) return" is the guard on savedSession.
restoreSession ==
  /\ step = "UPLOAD"
  /\ hasSavedSession
  /\ savedSession # NoSession
  /\ IF JsonParses(savedSession)
     THEN LET data == savedSession[1]
          IN /\ rawKeywords' = data.rawKeywords
             /\ processedKeywords' = data.processedKeywords
             /\ restoredFrom' = Some(data)
             /\ StartProcessing(data.productContext,
                                InitialQueue(data.rawKeywords, data.processedKeywords),
                                Len(data.rawKeywords))
             /\ step' = "ANALYSIS"
             /\ UNCHANGED alerts
     ELSE /\ alerts' = alerts \cup {"Could not restore session due to data corruption."}
          /\ savedSession' = NoSession
          /\ UNCHANGED <<step, rawKeywords, processedKeywords, restoredFrom,
                         productContext, nchains, chains, status, queueRef,
                         progress, dispatched>>
  /\ hasSavedSession' = FALSE
  /\ lastError' = Null
  /\ exported' = Null
  /\ UNCHANGED <<clsVars, dashVars, revVars, srvVars, results, keywords, logs, isPausedRef,
                 image, toggles, failedBatches, recorded>>

\* "Discard" of the banner: clearSession.
clearSession ==
  /\ step = "UPLOAD"
  /\ hasSavedSession
  /\ savedSession' = NoSession
  /\ hasSavedSession' = FALSE
  /\ lastError' = Null
  /\ exported' = Null
  /\ UNCHANGED <<clsVars, dashVars, revVars, srvVars, step, rawKeywords, results, keywords,
                 restoredFrom, alerts, status, productContext, processedKeywords,
                 progress, logs, queueRef, isPausedRef, image, chains, nchains,
                 toggles, dispatched, failedBatches, recorded>>

\* "Proceed to Review" of the done view: onAnalysisComplete -> handleAnalysisComplete,
\* and the mount of the ReviewInterface with the results.
handleAnalysisComplete ==
  /\ step = "ANALYSIS"
  /\ status = "done"
  /\ productContext # Null
  /\ results' = processedKeywords
  /\ keywords' = processedKeywords
  /\ step' = "REVIEW"
  /\ lastError' = Null
  /\ exported' = Null
  /\ UNCHANGED <<clsVars, dashVars, recVars, revVars, srvVars, rawKeywords, status, productContext, processedKeywords,
                 progress, logs, queueRef, isPausedRef, savedSession, image,
                 chains, nchains, toggles, dispatched, failedBatches, recorded>>

\* --------------------------------------------------------- ReviewInterface
\* reviewQueue and currentCard (currentIndex stays 0)
reviewQueue == SelectSeq(keywords, LAMBDA k : k.status = MEDIUM_RELEVANCE)

\* useState(0); setCurrentIndex is never called
currentIndex == 0

\* currentCard, when there is one (indexes of the code start at 0)
currentCard == reviewQueue[currentIndex + 1]

handleDecisionAllCards(approved) ==
  /\ step = "REVIEW"
  /\ currentIndex + 1 \in DOMAIN reviewQueue
  /\ keywords' = [i \in DOMAIN keywords |->
                    IF keywords[i].status = MEDIUM_RELEVANCE
                    THEN [keywords[i] EXCEPT !.status = IF approved THEN APPROVED ELSE REJECTED]
                    ELSE keywords[i]]
  /\ lastDecision' = Some([index |-> currentIndex, approved |-> approved,
                           card |-> currentCard.originalText])
  /\ lastError' = Null
  /\ exported' = Null
  /\ UNCHANGED <<clsVars, dashVars, recVars, srvVars, step, rawKeywords, results, status, productContext,
                 processedKeywords, progress, logs, queueRef, isPausedRef,
                 savedSession, image, chains, nchains, toggles, dispatched,
                 failedBatches, recorded>>

\* handleDecision
handleDecision(approved) ==
  /\ step = "REVIEW"
  /\ currentIndex + 1 \in DOMAIN reviewQueue
  /\ keywords' = [i \in DOMAIN keywords |->
                    IF keywords[i].originalText = currentCard.originalText
                    THEN [keywords[i] EXCEPT !.status = IF approved THEN APPROVED ELSE REJECTED]
                    ELSE keywords[i]]
  /\ lastDecision' = Some([index |-> currentIndex, approved |-> approved,
                           card |-> currentCard.originalText])
  /\ lastError' = Null
  /\ exported' = Null
  /\ UNCHANGED <<clsVars, dashVars, recVars, srvVars, step, rawKeywords, results, status, productContext,
                 processedKeywords, progress, logs, queueRef, isPausedRef,
                 savedSession, image, chains, nchains, toggles, dispatched,
                 failedBatches, recorded>>

\* ------------------------------------------------------------------ export
\* The rows handed to XLSX.utils.json_to_sheet.
ExportRows(items) ==
  [i \in DOMAIN items |->
     [Keyword |-> items[i].originalText, Score |-> items[i].score,
      Status |-> items[i].status, Reasoning |-> items[i].reasoning]]

\* "Save File" of the dashboard, shown in every view but the done view.
handleManualExport ==
  /\ Mounted
  /\ ~(status = "done" /\ productContext # Null)
  /\ exported' = Some([sheet |-> "Partial_Results",
                       rows |-> ExportRows(processedKeywords)])
  /\ lastError' = Null
  /\ UNCHANGED <<appVars, clsVars, dashVars, recVars, revVars, srvVars, status, productContext,
                 processedKeywords, progress, logs, queueRef, isPausedRef,
                 savedSession, image, chains, nchains, toggles, dispatched,
                 failedBatches, recorded>>

\* "Export" of the ReviewInterface.
handleExport ==
  /\ step = "REVIEW"
  /\ exported' = Some([sheet |-> "Results", rows |-> ExportRows(keywords)])
  /\ lastError' = Null
  /\ UNCHANGED <<appVars, clsVars, dashVars, recVars, revVars, srvVars, status, productContext,
                 processedKeywords, progress, logs, queueRef, isPausedRef,
                 savedSession, image, chains, nchains, toggles, dispatched,
                 failedBatches, recorded>>

\* ----------------------------------------------- the session of the server
\* server.py is not among the sources; its session follows the specification
\* (sections 3, 4.2-4.5 and 6).
SrvTierOf(score) == TierOfStatus(Classify(score))

SrvItem(kw, score) ==
  [keyword |-> kw, score |-> score, tier |-> SrvTierOf(score),
   status |-> "pending", evidence |-> Null]

\* The items of the session once scored, in submission order: two manual
\* items, an excluded one and an auto one.
ScoredSession ==
  << SrvItem(1, 55 * ScoreUnit), SrvItem(2, 10 * ScoreUnit),
     SrvItem(3, 60 * ScoreUnit), SrvItem(4, 90 * ScoreUnit) >>

ReviewConfigs ==
  [include_manual : BOOLEAN, include_auto : BOOLEAN, include_excluded : BOOLEAN]

DefaultScope ==
  [include_manual |-> TRUE, include_auto |-> FALSE, include_excluded |-> FALSE]

SrvInScope(cfg, tier) ==
  \/ tier = "manual" /\ cfg.include_manual
  \/ tier = "auto" /\ cfg.include_auto
  \/ tier = "excluded" /\ cfg.include_excluded

\* The review queue of a scope: the items of its tiers, in submission order.
SrvQueueOf(items, cfg) ==
  SelectSeq([i \in DOMAIN items |-> i], LAMBDA i : SrvInScope(cfg, items[i].tier))

\* The answer of /manual_queue
SrvManualQueue(items, q) == [i \in DOMAIN q |-> items[q[i]]]

MinOf(S) == CHOOSE x \in S : \A y \in S : x <= y

SrvPending(items, q) == {i \in 0..(Len(q) - 1) : items[q[i + 1]].status = "pending"}

\* The pointer references a pending item: the first one from index on, else
\* the first one, else it is out of range.
SrvNextPending(items, q, from) ==
  LET p == SrvPending(items, q)
  IN IF \E i \in p : i >= from THEN MinOf({i \in p : i >= from})
     ELSE IF p # {} THEN MinOf(p)
     ELSE Len(q)

SrvWrite(items, q, idx) ==
  /\ srvItems' = items
  /\ manual_queue' = q
  /\ current_manual_index' = idx

\* The answer of /status: the snapshot of section 6, recomputed on every read.
SrvCount(items, tier) == Cardinality({i \in DOMAIN items : items[i].tier = tier})

SrvCountStatus(items, st) == Cardinality({i \in DOMAIN items : items[i].status = st})

SrvStatus ==
  [status |-> IF Len(srvItems) = Len(ScoredSession) THEN "Scoring Complete" ELSE "Scoring",
   progress |->
     IF srvItems = <<>> THEN 0
     ELSE (Cardinality({i \in DOMAIN srvItems :
                          srvItems[i].status \in {"kept", "deleted", "verified_keep",
                                                  "verified_drop"}}) * 100)
            \div Len(srvItems),
   manual_count |-> SrvCount(srvItems, "manual"),
   auto_count |-> SrvCount(srvItems, "auto"),
   excluded_count |-> SrvCount(srvItems, "excluded"),
   verified_keep |-> SrvCountStatus(srvItems, "verified_keep"),
   verified_drop |-> SrvCountStatus(srvItems, "verified_drop"),
   manual_pending |->
     Cardinality({i \in DOMAIN srvItems :
                    srvItems[i].tier = "manual" /\ srvItems[i].status = "pending"}),
   current_manual_index |-> current_manual_index,
   current_keyword |->
     IF current_manual_index \in 0..(Len(manual_queue) - 1)
     THEN Some(srvItems[manual_queue[current_manual_index + 1]])
     ELSE Null,
   batch_status |-> batch_status]

SrvUnchanged == UNCHANGED <<srvItems, manual_queue, current_manual_index>>

Decisions == {"keep", "delete", "undecided"}

SrvStatusOf(decision) ==
  CASE decision = "keep" -> "kept"
    [] decision = "delete" -> "deleted"
    [] OTHER -> "undecided"

SrvInRange(index) == index \in 0..(Len(manual_queue) - 1)

SrvActionClamped(decision, index) ==
  LET ix  == IF SrvInRange(index) THEN index ELSE Len(manual_queue) - 1
      pos == manual_queue[ix + 1]
      items2 == [srvItems EXCEPT ![pos].status = SrvStatusOf(decision)]
  IN IF manual_queue = <<>>
     THEN /\ reply' = Some("IndexError")
          /\ SrvUnchanged
          /\ UNCHANGED humanDecided
     ELSE /\ reply' = Some("ok")
          /\ humanDecided' = humanDecided \cup {srvItems[pos].keyword}
          /\ SrvWrite(items2, manual_queue, SrvNextPending(items2, manual_queue, ix))

\* action(index, decision): an index outside the queue is rejected; a decision
\* the item already has is a no-op; otherwise the status is set and the
\* pointer moves to the next pending item.
SrvAction(decision, index) ==
  IF ~SrvInRange(index)
  THEN /\ reply' = Some("IndexError")
       /\ SrvUnchanged
       /\ UNCHANGED humanDecided
  ELSE LET pos == manual_queue[index + 1]
           items2 == [srvItems EXCEPT ![pos].status = SrvStatusOf(decision)]
       IN /\ reply' = Some("ok")
          /\ humanDecided' = humanDecided \cup {srvItems[pos].keyword}
          /\ IF srvItems[pos].status = SrvStatusOf(decision)
             THEN SrvUnchanged
             ELSE SrvWrite(items2, manual_queue,
                           SrvNextPending(items2, manual_queue, index))

\* navigate(index): the pointer moves to a pending item of the queue; an
\* index outside the queue is rejected, any other target is a no-op.
SrvNavigate(index) ==
  IF ~SrvInRange(index)
  THEN /\ reply' = Some("IndexError")
       /\ SrvUnchanged
  ELSE /\ reply' = Some("ok")
       /\ IF srvItems[manual_queue[index + 1]].status = "pending"
          THEN SrvWrite(srvItems, manual_queue, index)
          ELSE SrvUnchanged

\* configureReview(cfg): only the scope of the review changes.
SrvConfigureReview(cfg) ==
  /\ reviewScope' = cfg
  /\ SrvWrite(srvItems, SrvQueueOf(srvItems, cfg),
              SrvNextPending(srvItems, SrvQueueOf(srvItems, cfg), 0))

\* Scoring classifies the next submitted keyword: enqueue appends the item,
\* the items already there keep their place.
SrvEnqueue ==
  LET items2 == Append(srvItems, ScoredSession[Len(srvItems) + 1])
      q2     == SrvQueueOf(items2, reviewScope)
  IN SrvWrite(items2, q2, SrvNextPending(items2, q2, current_manual_index))

\* The candidates of the verification: the excluded items not yet verified.
SrvCandidates(items) ==
  {i \in DOMAIN items :
     /\ items[i].tier = "excluded"
     /\ items[i].status \notin {"verified_keep", "verified_drop"}}

SrvVerified(item, match) ==
  IF match
  THEN [item EXCEPT !.tier = "auto", !.status = "verified_keep",
                    !.evidence = Some([similar_count |-> 1, vision_score |-> 1])]
  ELSE [item EXCEPT !.status = "verified_drop"]

\* ------------------------------------------- the client of the backend session
clientVars ==
  <<appVars, clsVars, dashVars, recVars, revVars, status, productContext, processedKeywords,
    progress, logs, queueRef, isPausedRef, savedSession, image, chains,
    nchains, toggles, dispatched, failedBatches, lastError, recorded,
    exported>>

\* A fetchState run: after getStatus it holds the index read, and seen, the
\* answers /manual_queue had while the pointer of the server was that index.
NewFetch == [pc |-> "status", idx |-> 0, seen |-> {}]

\* The runs under way after the server came to the state of this step.
Observed(fs) ==
  [f \in DOMAIN fs |->
     IF fs[f].pc = "queue" /\ fs[f].idx = current_manual_index'
     THEN [fs[f] EXCEPT !.seen = @ \cup {SrvManualQueue(srvItems', manual_queue')}]
     ELSE fs[f]]

FreeFetch == MinOf((1..MaxFetches) \ DOMAIN fetches)

\* fetchState() is called.
StartFetch == fetches' = Put(Observed(fetches), FreeFetch, NewFetch)

NoFetch == fetches' = Observed(fetches)

StartReviewMovingAll(cfg) ==
  LET items2 == [i \in DOMAIN srvItems |-> [srvItems[i] EXCEPT !.tier = "manual"]]
      q2     == SrvQueueOf(items2, cfg)
  IN /\ backendStage = "dashboard"
     /\ backendStage' = "review"
     /\ reviewScope' = cfg
     /\ SrvWrite(items2, q2, SrvNextPending(items2, q2, 0))
     /\ pending' = {"startVerification", "navigateTo"}
     /\ StartFetch
     /\ lastRequest' = Null
     /\ lastPoll' = Null
     /\ reply' = Null
     /\ lastRefresh' = Null
     /\ UNCHANGED <<clientVars, batch_status, nrequests, syncIndex, syncQueue,
                    isConnected, humanDecided, verified>>

\* "Start Review" of the dashboard: configureReview with the scope ticked,
\* startVerification sent and not awaited, onAnalysisComplete; the
\* ReviewInterface mounts, calls fetchState and sends navigateTo(0).
StartReview(cfg) ==
  /\ backendStage = "dashboard"
  /\ backendStage' = "review"
  /\ SrvConfigureReview(cfg)
  /\ pending' = {"startVerification", "navigateTo"}
  /\ StartFetch
  /\ lastRequest' = Null
  /\ lastPoll' = Null
  /\ reply' = Null
  /\ lastRefresh' = Null
  /\ UNCHANGED <<clientVars, batch_status, nrequests, syncIndex, syncQueue,
                 isConnected, humanDecided, verified>>

\* The scoring pass of the server scores one more keyword.
SrvScore ==
  /\ backendStage = "polling"
  /\ Len(srvItems) < Len(ScoredSession)
  /\ SrvEnqueue
  /\ NoFetch
  /\ lastRequest' = Null
  /\ lastPoll' = Null
  /\ reply' = Null
  /\ lastRefresh' = Null
  /\ UNCHANGED <<clientVars, backendStage, reviewScope, batch_status, pending,
                 nrequests, syncIndex, syncQueue, isConnected, humanDecided,
                 verified>>

\* The completion test of the poll.
isBatchActive(s) == s.batch_status # "" /\ s.batch_status # "Idle" /\ s.batch_status # "Error"

isScoringDone(s, total) ==
  \/ s.status = "Scoring Complete"
  \/ s.manual_count + s.auto_count + s.excluded_count = total

pollIgnoringBatch ==
  /\ backendStage = "polling"
  /\ lastPoll' = Some(SrvStatus)
  /\ backendStage' = IF isScoringDone(SrvStatus, Len(ScoredSession))
                     THEN "dashboard" ELSE "polling"
  /\ SrvUnchanged
  /\ lastRequest' = Null
  /\ reply' = Null
  /\ lastRefresh' = Null
  /\ UNCHANGED <<clientVars, reviewScope, batch_status, pending, fetches,
                 nrequests, syncIndex, syncQueue, isConnected, humanDecided,
                 verified>>

\* The polling interval of the dashboard fires and getStatus answers s:
\* setBackendStatus(s), and setStatus('done') when scoring is done and the
\* verification is not active.
poll ==
  /\ backendStage = "polling"
  /\ lastPoll' = Some(SrvStatus)
  /\ backendStage' = IF /\ isScoringDone(SrvStatus, Len(ScoredSession))
                        /\ ~isBatchActive(SrvStatus)
                     THEN "dashboard" ELSE "polling"
  /\ SrvUnchanged
  /\ lastRequest' = Null
  /\ reply' = Null
  /\ lastRefresh' = Null
  /\ UNCHANGED <<clientVars, reviewScope, batch_status, pending, fetches,
                 nrequests, syncIndex, syncQueue, isConnected, humanDecided,
                 verified>>

\* The server handles startVerification.
SrvStartVerification ==
  /\ "startVerification" \in pending
  /\ pending' = pending \ {"startVerification"}
  /\ batch_status' = IF SrvCandidates(srvItems) = {} THEN "Complete" ELSE "Running"
  /\ lastRequest' = Null
  /\ lastPoll' = Null
  /\ reply' = Null
  /\ lastRefresh' = Null
  /\ SrvUnchanged
  /\ UNCHANGED <<clientVars, backendStage, reviewScope, fetches, nrequests,
                 syncIndex, syncQueue, isConnected, humanDecided, verified>>

\* The verification writes its decision for candidate pos.
SrvVerify(pos, match) ==
  /\ batch_status = "Running"
  /\ pos \in SrvCandidates(srvItems)
  /\ LET items2 == [srvItems EXCEPT ![pos] = SrvVerified(srvItems[pos], match)]
     IN /\ SrvWrite(items2, manual_queue,
                    SrvNextPending(items2, manual_queue, current_manual_index))
        /\ batch_status' = IF SrvCandidates(items2) = {} THEN "Complete" ELSE "Running"
  /\ verified' = verified \cup {srvItems[pos].keyword}
  /\ NoFetch
  /\ lastRequest' = Null
  /\ lastPoll' = Null
  /\ reply' = Null
  /\ lastRefresh' = Null
  /\ UNCHANGED <<clientVars, backendStage, reviewScope, pending, nrequests,
                 syncIndex, syncQueue, isConnected, humanDecided>>

\* The server handles the navigateTo(0) of the mount.
navigateTo ==
  /\ "navigateTo" \in pending
  /\ pending' = pending \ {"navigateTo"}
  /\ SrvNavigate(0)
  /\ NoFetch
  /\ lastRequest' = Some([op |-> "navigate", index |-> 0])
  /\ lastPoll' = Null
  /\ lastRefresh' = Null
  /\ UNCHANGED <<clientVars, backendStage, reviewScope, batch_status,
                 nrequests, syncIndex, syncQueue, isConnected, humanDecided,
                 verified>>

\* setInterval(fetchState, ...) fires.
IntervalFires ==
  /\ backendStage = "review"
  /\ Cardinality(DOMAIN fetches) < MaxFetches
  /\ SrvUnchanged
  /\ StartFetch
  /\ lastRequest' = Null
  /\ lastPoll' = Null
  /\ reply' = Null
  /\ lastRefresh' = Null
  /\ UNCHANGED <<clientVars, backendStage, reviewScope, batch_status, pending,
                 nrequests, syncIndex, syncQueue, isConnected, humanDecided,
                 verified>>

\* fetchState: getStatus answers, setCurrentIndex(status.current_manual_index).
fetchStateStatus(f) ==
  /\ f \in DOMAIN fetches
  /\ fetches[f].pc = "status"
  /\ syncIndex' = SrvStatus.current_manual_index
  /\ fetches' = [fetches EXCEPT ![f] =
                   [pc |-> "queue", idx |-> SrvStatus.current_manual_index,
                    seen |-> {SrvManualQueue(srvItems, manual_queue)}]]
  /\ lastRequest' = Null
  /\ lastPoll' = Null
  /\ reply' = Null
  /\ lastRefresh' = Null
  /\ SrvUnchanged
  /\ UNCHANGED <<clientVars, backendStage, reviewScope, batch_status, pending,
                 nrequests, syncQueue, isConnected, humanDecided, verified>>

\* fetchState: getManualQueue answers, setReviewQueue(queue), setIsConnected(true).
fetchStateQueue(f) ==
  /\ f \in DOMAIN fetches
  /\ fetches[f].pc = "queue"
  /\ syncQueue' = SrvManualQueue(srvItems, manual_queue)
  /\ isConnected' = TRUE
  /\ fetches' = Remove(fetches, f)
  /\ lastRefresh' = Some([index |-> fetches[f].idx,
                          queue |-> SrvManualQueue(srvItems, manual_queue),
                          seen |-> fetches[f].seen])
  /\ lastRequest' = Null
  /\ lastPoll' = Null
  /\ reply' = Null
  /\ SrvUnchanged
  /\ UNCHANGED <<clientVars, backendStage, reviewScope, batch_status, pending,
                 nrequests, syncIndex, humanDecided, verified>>

\* fetchState: a request fails, setIsConnected(false).
fetchStateFails(f) ==
  /\ f \in DOMAIN fetches
  /\ isConnected' = FALSE
  /\ fetches' = Remove(fetches, f)
  /\ lastRequest' = Null
  /\ lastPoll' = Null
  /\ reply' = Null
  /\ lastRefresh' = Null
  /\ SrvUnchanged
  /\ UNCHANGED <<clientVars, backendStage, reviewScope, batch_status, pending,
                 nrequests, syncIndex, syncQueue, humanDecided, verified>>

\* api.performAction(decision, index), handled by the server.
performAction(decision, index) ==
  /\ backendStage = "review"
  /\ nrequests < MaxRequests
  /\ nrequests' = nrequests + 1
  /\ SrvAction(decision, index)
  /\ lastRequest' = Some([op |-> "action", index |-> index])
  /\ lastPoll' = Null
  /\ lastRefresh' = Null
  /\ UNCHANGED <<clientVars, backendStage, reviewScope, batch_status, pending,
                 syncIndex, syncQueue, isConnected, verified>>

\* An action request of any index, as the interface accepts it.
ApiRequest(decision, index) ==
  /\ performAction(decision, index)
  /\ NoFetch

\* handleDecision of the backend ReviewInterface: nothing without a current
\* card; else performAction with the currentIndex held, then fetchState().
handleDecisionSync(decision) ==
  /\ syncIndex + 1 \in DOMAIN syncQueue
  /\ Cardinality(DOMAIN fetches) < MaxFetches
  /\ performAction(decision, syncIndex)
  /\ StartFetch

InitReview ==
  /\ step = "UPLOAD"
  /\ rawKeywords = <<>>
  /\ results = <<>>
  /\ status = "analyzing_image"
  /\ productContext = Null
  /\ processedKeywords = <<>>
  /\ progress = 0
  /\ logs = <<>>
  /\ queueRef = <<>>
  /\ isPausedRef = FALSE
  /\ savedSession = NoSession
  /\ hasSavedSession = FALSE
  /\ restoredFrom = Null
  /\ alerts = {}
  /\ image = IdleImage
  /\ chains = <<>>
  /\ nchains = 0
  /\ toggles = 0
  /\ keywords = <<>>
  /\ dispatched = <<>>
  /\ failedBatches = {}
  /\ lastError = Null
  /\ recorded = <<>>
  /\ lastDecision = Null
  /\ exported = Null
  /\ cScore = 0
  /\ cStatus = "none"
  /\ NoDashboard
  /\ backendStage = "polling"
  /\ srvItems = <<>>
  /\ manual_queue = <<>>
  /\ current_manual_index = 0
  /\ reviewScope = DefaultScope
  /\ batch_status \in {"Idle", "Running"}
  /\ pending = {}
  /\ fetches = <<>>
  /\ nrequests = 0
  /\ syncIndex = 0
  /\ syncQueue = <<>>
  /\ isConnected = TRUE
  /\ lastRefresh = Null
  /\ lastPoll = Null
  /\ lastRequest = Null
  /\ reply = Null
  /\ humanDecided = {}
  /\ verified = {}

NextReview ==
  \/ SrvScore
  \/ poll
  \/ \E cfg \in ReviewConfigs : StartReview(cfg)
  \/ SrvStartVerification
  \/ \E pos \in DOMAIN srvItems, match \in BOOLEAN : SrvVerify(pos, match)
  \/ navigateTo
  \/ IntervalFires
  \/ \E f \in DOMAIN fetches : fetchStateStatus(f)
  \/ \E f \in DOMAIN fetches : fetchStateQueue(f)
  \/ \E f \in DOMAIN fetches : fetchStateFails(f)
  \/ \E d \in Decisions, i \in 0..Len(srvItems) : ApiRequest(d, i)
  \/ \E d \in Decisions : handleDecisionSync(d)

SpecReview == InitReview /\ [][NextReview]_vars

\* ------------------------------------- the dashboard of the backend variant
\* ProcessingDashboard.tsx from its mount to the REVIEW step.  An effect runs
\* after the render that changed one of its dependencies; every callback of
\* a request, a timer or a click runs after the effects that are due.  App
\* passes no excelFile, so startBackend uploads nothing.  togglePause is
\* called by no element of the component: the polling is never paused.
MaxPolls == 2

MaxClicks == 2

MaxFailures == 2

Without(q, i) == SubSeq(q, 1, i - 1) \o SubSeq(q, i + 1, Len(q))

dashFrame ==
  <<cScore, cStatus, recVars, revVars, rawKeywords, keywords, processedKeywords,
    progress, queueRef, isPausedRef, savedSession, image, chains, nchains,
    toggles, dispatched, failedBatches, lastError, recorded, exported,
    batch_status, fetches, nrequests, syncIndex, syncQueue, isConnected,
    lastRefresh, lastPoll, lastRequest, reply, humanDecided, verified>>

EffectsDone == imageDue = 0 /\ backendDue = 0

\* The effect of startImageAnalysis runs: the call is made in status
\* analyzing_image unless hasStartedAnalysisRef is set.
startImageAnalysis ==
  /\ step = "ANALYSIS"
  /\ imageDue > 0
  /\ imageDue' = imageDue - 1
  /\ IF status = "analyzing_image" /\ ~hasStartedAnalysisRef
     THEN /\ hasStartedAnalysisRef' = TRUE
          /\ imageCalls' = imageCalls + 1
     ELSE UNCHANGED <<hasStartedAnalysisRef, imageCalls>>
  /\ UNCHANGED <<dashFrame, step, results, status, productContext, logs,
                 backendStage, srvItems, manual_queue, current_manual_index,
                 reviewScope, pending, hasStartedBackendRef, backendDue,
                 analyzeCalls, analyzeSucceeded, polls, backendStatus,
                 configures, configured>>

\* analyzeProductImage returns: setProductContext(ctx) and
\* setStatus(s => s === 'analyzing_image' ? 'starting_backend' : s).
imageAnalysed ==
  /\ EffectsDone
  /\ imageCalls > 0
  /\ imageCalls' = imageCalls - 1
  /\ productContext' = Some(ContextOf(AnalysisOf("gemini")))
  /\ status' = IF status = "analyzing_image" THEN "starting_backend" ELSE status
  /\ imageDue' = IF status' # status THEN 1 ELSE 0
  /\ backendDue' = IF status' # status \/ productContext' # productContext THEN 1 ELSE 0
  /\ UNCHANGED <<dashFrame, step, results, logs, backendStage, srvItems,
                 manual_queue, current_manual_index, reviewScope, pending,
                 hasStartedAnalysisRef, hasStartedBackendRef, analyzeCalls,
                 analyzeSucceeded, polls, backendStatus, configures, configured>>

\* analyzeProductImage throws (the primary and the secondary backend failed):
\* the error is logged and hasStartedAnalysisRef is reset.
imageAnalysisFails ==
  /\ EffectsDone
  /\ imageCalls > 0
  /\ Len(logs) < MaxFailures
  /\ imageCalls' = imageCalls - 1
  /\ addLog([line |-> "Error analyzing image", error |-> <<"error">>])
  /\ hasStartedAnalysisRef' = FALSE
  /\ UNCHANGED <<dashFrame, step, results, status, productContext, backendStage,
                 srvItems, manual_queue, current_manual_index, reviewScope,
                 pending, hasStartedBackendRef, imageDue, backendDue,
                 analyzeCalls, analyzeSucceeded, polls, backendStatus,
                 configures, configured>>

startBackendUnguarded ==
  /\ step = "ANALYSIS"
  /\ backendDue > 0
  /\ backendDue' = backendDue - 1
  /\ IF status = "starting_backend" /\ productContext # Null
     THEN /\ hasStartedBackendRef' = TRUE
          /\ analyzeCalls' = analyzeCalls + 1
     ELSE UNCHANGED <<hasStartedBackendRef, analyzeCalls>>
  /\ UNCHANGED <<dashFrame, step, results, status, productContext, logs,
                 backendStage, srvItems, manual_queue, current_manual_index,
                 reviewScope, pending, hasStartedAnalysisRef, imageDue,
                 imageCalls, analyzeSucceeded, polls, backendStatus,
                 configures, configured>>

\* The effect of startBackend runs: api.analyze is called in status
\* starting_backend with a product context, unless hasStartedBackendRef is set.
startBackend ==
  /\ step = "ANALYSIS"
  /\ backendDue > 0
  /\ backendDue' = backendDue - 1
  /\ IF status = "starting_backend" /\ productContext # Null /\ ~hasStartedBackendRef
     THEN /\ hasStartedBackendRef' = TRUE
          /\ analyzeCalls' = analyzeCalls + 1
     ELSE UNCHANGED <<hasStartedBackendRef, analyzeCalls>>
  /\ UNCHANGED <<dashFrame, step, results, status, productContext, logs,
                 backendStage, srvItems, manual_queue, current_manual_index,
                 reviewScope, pending, hasStartedAnalysisRef, imageDue,
                 imageCalls, analyzeSucceeded, polls, backendStatus,
                 configures, configured>>

\* A render with a new initialKeywords or excelFile makes the start effect due.
propsChange ==
  /\ step = "ANALYSIS"
  /\ backendDue = 0
  /\ backendDue' = 1
  /\ UNCHANGED <<dashFrame, step, results, status, productContext, logs,
                 backendStage, srvItems, manual_queue, current_manual_index,
                 reviewScope, pending, hasStartedAnalysisRef,
                 hasStartedBackendRef, imageDue, imageCalls, analyzeCalls,
                 analyzeSucceeded, polls, backendStatus, configures, configured>>

\* api.analyze returns: the server has the session, setStatus('polling').
analyzeSucceeds ==
  /\ EffectsDone
  /\ analyzeCalls > 0
  /\ analyzeCalls' = analyzeCalls - 1
  /\ analyzeSucceeded' = analyzeSucceeded + 1
  /\ status' = "polling"
  /\ backendStage' = "polling"
  /\ imageDue' = IF status # "polling" THEN 1 ELSE 0
  /\ backendDue' = IF status # "polling" THEN 1 ELSE 0
  /\ UNCHANGED <<dashFrame, step, results, productContext, logs, srvItems,
                 manual_queue, current_manual_index, reviewScope, pending,
                 hasStartedAnalysisRef, hasStartedBackendRef, imageCalls,
                 polls, backendStatus, configures, configured>>

\* api.analyze throws: the error is logged and hasStartedBackendRef is reset.
analyzeFails ==
  /\ EffectsDone
  /\ analyzeCalls > 0
  /\ Len(logs) < MaxFailures
  /\ analyzeCalls' = analyzeCalls - 1
  /\ addLog([line |-> "Error connecting to backend", error |-> <<"error">>])
  /\ hasStartedBackendRef' = FALSE
  /\ UNCHANGED <<dashFrame, step, results, status, productContext, backendStage,
                 srvItems, manual_queue, current_manual_index, reviewScope,
                 pending, hasStartedAnalysisRef, imageDue, backendDue,
                 imageCalls, analyzeSucceeded, polls, backendStatus,
                 configures, configured>>

\* The polling interval fires and the server answers getStatus; the answer
\* is on its way.
pollFires ==
  /\ step = "ANALYSIS"
  /\ status = "polling"
  /\ EffectsDone
  /\ ~isPausedRef
  /\ Len(polls) < MaxPolls
  /\ polls' = Append(polls, SrvStatus)
  /\ UNCHANGED <<dashFrame, step, results, status, productContext, logs,
                 backendStage, srvItems, manual_queue, current_manual_index,
                 reviewScope, pending, hasStartedAnalysisRef,
                 hasStartedBackendRef, imageDue, backendDue, imageCalls,
                 analyzeCalls, analyzeSucceeded, backendStatus, configures,
                 configured>>

\* An answer of getStatus arrives: setBackendStatus(s), and setStatus('done')
\* when scoring is done and the verification is not active.  A dashboard
\* that is no longer mounted ignores it.
pollArrives(i) ==
  /\ i \in DOMAIN polls
  /\ EffectsDone
  /\ polls' = Without(polls, i)
  /\ IF step = "ANALYSIS"
     THEN /\ backendStatus' = Some(polls[i])
          /\ status' = IF /\ isScoringDone(polls[i], Len(ScoredSession))
                          /\ ~isBatchActive(polls[i])
                       THEN "done" ELSE status
     ELSE UNCHANGED <<backendStatus, status>>
  /\ backendStage' = IF status' = "done" /\ step = "ANALYSIS" THEN "dashboard" ELSE backendStage
  /\ imageDue' = IF status' # status THEN 1 ELSE 0
  /\ backendDue' = IF status' # status THEN 1 ELSE 0
  /\ UNCHANGED <<dashFrame, step, results, productContext, logs, srvItems,
                 manual_queue, current_manual_index, reviewScope, pending,
                 hasStartedAnalysisRef, hasStartedBackendRef, imageCalls,
                 analyzeCalls, analyzeSucceeded, configures, configured>>

\* getStatus throws: console.error.
pollFails(i) ==
  /\ i \in DOMAIN polls
  /\ EffectsDone
  /\ polls' = Without(polls, i)
  /\ UNCHANGED <<dashFrame, step, results, status, productContext, logs,
                 backendStage, srvItems, manual_queue, current_manual_index,
                 reviewScope, pending, hasStartedAnalysisRef,
                 hasStartedBackendRef, imageDue, backendDue, imageCalls,
                 analyzeCalls, analyzeSucceeded, backendStatus, configures,
                 configured>>

\* A click on Start Review, enabled in status done: api.configureReview is
\* called with the scope ticked.
StartReviewClick(cfg) ==
  /\ step = "ANALYSIS"
  /\ status = "done"
  /\ EffectsDone
  /\ Len(configures) < MaxClicks
  /\ configures' = Append(configures, cfg)
  /\ UNCHANGED <<dashFrame, step, results, status, productContext, logs,
                 backendStage, srvItems, manual_queue, current_manual_index,
                 reviewScope, pending, hasStartedAnalysisRef,
                 hasStartedBackendRef, imageDue, backendDue, imageCalls,
                 analyzeCalls, analyzeSucceeded, polls, backendStatus,
                 configured>>

\* api.configureReview returns: api.startVerification() is sent and not
\* awaited, onAnalysisComplete([], productContext) -> handleAnalysisComplete.
configureReviewSucceeds(i) ==
  /\ i \in DOMAIN configures
  /\ EffectsDone
  /\ configures' = Without(configures, i)
  /\ configured' = configured + 1
  /\ SrvConfigureReview(configures[i])
  /\ pending' = pending \cup {"startVerification"}
  /\ results' = <<>>
  /\ step' = "REVIEW"
  /\ backendStage' = "review"
  /\ UNCHANGED <<dashFrame, status, productContext, logs,
                 hasStartedAnalysisRef, hasStartedBackendRef, imageDue,
                 backendDue, imageCalls, analyzeCalls, analyzeSucceeded,
                 polls, backendStatus>>

configureReviewFailsEntering(i) ==
  /\ i \in DOMAIN configures
  /\ EffectsDone
  /\ configures' = Without(configures, i)
  /\ pending' = pending \cup {"startVerification"}
  /\ results' = <<>>
  /\ step' = "REVIEW"
  /\ backendStage' = "review"
  /\ UNCHANGED <<dashFrame, status, productContext, logs, srvItems,
                 manual_queue, current_manual_index, reviewScope,
                 hasStartedAnalysisRef, hasStartedBackendRef, imageDue,
                 backendDue, imageCalls, analyzeCalls, analyzeSucceeded,
                 polls, backendStatus, configured>>

\* api.configureReview throws: the click handler ends there.
configureReviewFails(i) ==
  /\ i \in DOMAIN configures
  /\ EffectsDone
  /\ configures' = Without(configures, i)
  /\ UNCHANGED <<dashFrame, step, results, status, productContext, logs,
                 backendStage, srvItems, manual_queue, current_manual_index,
                 reviewScope, pending, hasStartedAnalysisRef,
                 hasStartedBackendRef, imageDue, backendDue, imageCalls,
                 analyzeCalls, analyzeSucceeded, polls, backendStatus,
                 configured>>

\* api.startVerification() rejects: .catch(console.error).
startVerificationFails ==
  /\ "startVerification" \in pending
  /\ pending' = pending \ {"startVerification"}
  /\ UNCHANGED <<dashFrame, step, results, status, productContext, logs,
                 backendStage, srvItems, manual_queue, current_manual_index,
                 reviewScope, hasStartedAnalysisRef, hasStartedBackendRef,
                 imageDue, backendDue, imageCalls, analyzeCalls,
                 analyzeSucceeded, polls, backendStatus, configures,
                 configured>>

\* The dashboard has mounted with the uploaded keywords; under StrictMode
\* its effects run twice.
InitDash ==
  /\ step = "ANALYSIS"
  /\ rawKeywords = <<>>
  /\ results = <<>>
  /\ status = "analyzing_image"
  /\ productContext = Null
  /\ processedKeywords = <<>>
  /\ progress = 0
  /\ logs = <<>>
  /\ queueRef = <<>>
  /\ isPausedRef = FALSE
  /\ savedSession = NoSession
  /\ hasSavedSession = FALSE
  /\ restoredFrom = Null
  /\ alerts = {}
  /\ image = IdleImage
  /\ chains = <<>>
  /\ nchains = 0
  /\ toggles = 0
  /\ keywords = <<>>
  /\ dispatched = <<>>
  /\ failedBatches = {}
  /\ lastError = Null
  /\ recorded = <<>>
  /\ lastDecision = Null
  /\ exported = Null
  /\ cScore = 0
  /\ cStatus = "none"
  /\ hasStartedAnalysisRef = FALSE
  /\ hasStartedBackendRef = FALSE
  /\ \E runs \in {1, 2} : imageDue = runs /\ backendDue = runs
  /\ imageCalls = 0
  /\ analyzeCalls = 0
  /\ analyzeSucceeded = 0
  /\ polls = <<>>
  /\ backendStatus = Null
  /\ configures = <<>>
  /\ configured = 0
  /\ backendStage = "off"
  /\ srvItems = <<>>
  /\ manual_queue = <<>>
  /\ current_manual_index = 0
  /\ reviewScope = DefaultScope
  /\ batch_status \in {"Idle", "Running"}
  /\ pending = {}
  /\ fetches = <<>>
  /\ nrequests = 0
  /\ syncIndex = 0
  /\ syncQueue = <<>>
  /\ isConnected = TRUE
  /\ lastRefresh = Null
  /\ lastPoll = Null
  /\ lastRequest = Null
  /\ reply = Null
  /\ humanDecided = {}
  /\ verified = {}

pollArrivesAny == \E i \in DOMAIN polls : pollArrives(i)

NextDash ==
  \/ startImageAnalysis
  \/ imageAnalysed
  \/ imageAnalysisFails
  \/ startBackend
  \/ propsChange
  \/ analyzeSucceeds
  \/ analyzeFails
  \/ SrvScore
  \/ \E pos \in DOMAIN srvItems, match \in BOOLEAN : SrvVerify(pos, match)
  \/ pollFires
  \/ pollArrivesAny
  \/ \E i \in DOMAIN polls : pollFails(i)
  \/ \E cfg \in ReviewConfigs : StartReviewClick(cfg)
  \/ \E i \in DOMAIN configures : configureReviewSucceeds(i)
  \/ \E i \in DOMAIN configures : configureReviewFails(i)
  \/ SrvStartVerification
  \/ startVerificationFails

SpecDash == InitDash /\ [][NextDash]_vars

\* The effects that are due run and the server goes on scoring; a timer
\* that keeps being set fires and a collaborator that keeps being asked
\* answers in the end (strong fairness: an effect that is due defers the
\* callback).  Nothing obliges the props to change, a request to fail or the
\* reviewer to click.
SpecDashLive ==
  /\ SpecDash
  /\ WF_vars(startImageAnalysis)
  /\ WF_vars(startBackend)
  /\ WF_vars(SrvScore)
  /\ SF_vars(imageAnalysed)
  /\ SF_vars(analyzeSucceeds)
  /\ SF_vars(pollFires)
  /\ SF_vars(pollArrivesAny)

\* -------------------------------------------------------- classifier check
\* The classifier on its own: any score of the 0-100 scale is classified.
ClassifyStep ==
  /\ cStatus = "none"
  /\ cStatus' = Classify(cScore)
  /\ exported' = Null
  /\ UNCHANGED <<appVars, dashVars, recVars, revVars, srvVars, cScore, status, productContext, processedKeywords,
                 progress, logs, queueRef, isPausedRef, savedSession, image,
                 chains, nchains, toggles, dispatched, failedBatches, lastError,
                 recorded>>

InitClassify ==
  /\ step = "UPLOAD"
  /\ rawKeywords = <<>>
  /\ results = <<>>
  /\ status = "analyzing_image"
  /\ productContext = Null
  /\ processedKeywords = <<>>
  /\ progress = 0
  /\ logs = <<>>
  /\ queueRef = <<>>
  /\ isPausedRef = FALSE
  /\ savedSession = NoSession
  /\ hasSavedSession = FALSE
  /\ restoredFrom = Null
  /\ alerts = {}
  /\ image = IdleImage
  /\ chains = <<>>
  /\ nchains = 0
  /\ toggles = 0
  /\ keywords = <<>>
  /\ dispatched = <<>>
  /\ failedBatches = {}
  /\ lastError = Null
  /\ recorded = <<>>
  /\ lastDecision = Null
  /\ exported = Null
  /\ NoBackend
  /\ cScore \in 0..(MAX_SCORE * ScoreUnit)
  /\ cStatus = "none"
  /\ NoDashboard

NextClassify == ClassifyStep

SpecClassify == InitClassify /\ [][NextClassify]_vars

\* ------------------------------------------------- the 25-keyword scenario
\* 25 keywords whose scores are 8 in 85..95, 9 in 31..79 and 8 in 5..28,
\* scored without error in batches of BATCH_SIZE; the deep checks answer
\* either way.
ScenarioScores ==
  << 95, 92, 91, 90, 89, 88, 86, 85,
     79, 73, 67, 61, 55, 49, 43, 37, 31,
     28, 25, 22, 18, 15, 12, 8, 5 >>

ScenarioKeywords == [i \in DOMAIN ScenarioScores |-> i]

ScenarioAnswer(batch) ==
  [i \in DOMAIN batch |->
     [keyword |-> batch[i], score |-> ScenarioScores[batch[i]] * ScoreUnit,
      reasoning |-> <<"r">>]]

\* The dashboard once the image is analysed, the keyword effect about to
\* call processBatch.
InitScenario ==
  /\ step = "ANALYSIS"
  /\ rawKeywords = ScenarioKeywords
  /\ results = <<>>
  /\ status = "processing_keywords"
  /\ productContext = Some(ContextOf(AnalysisOf("gemini")))
  /\ processedKeywords = <<>>
  /\ progress = 0
  /\ logs = <<>>
  /\ queueRef = ScenarioKeywords
  /\ isPausedRef = FALSE
  /\ savedSession = NoSession
  /\ hasSavedSession = FALSE
  /\ restoredFrom = Null
  /\ alerts = {}
  /\ image = Returned(IdleImage)
  /\ chains = Put(<<>>, 1, TimerChain)
  /\ nchains = 1
  /\ toggles = 0
  /\ keywords = <<>>
  /\ dispatched = <<>>
  /\ failedBatches = {}
  /\ lastError = Null
  /\ recorded = <<>>
  /\ lastDecision = Null
  /\ exported = Null
  /\ NoBackend
  /\ cScore = 0
  /\ cStatus = "none"
  /\ NoDashboard

NextScenario ==
  \/ \E c \in DOMAIN chains : TimerFires(c)
  \/ \E c \in DOMAIN chains : ScoreSucceeds(c, ScenarioAnswer(chains[c].batch))
  \/ \E c \in DOMAIN chains : \E i \in DOMAIN chains[c].vcalls, b \in BOOLEAN : VerifyResolves(c, i, b)

SpecScenario == InitScenario /\ [][NextScenario]_vars

\* ------------------------------------------------------------------- Next
Next ==
  \/ handleFilesReady
  \/ ImageTick
  \/ \E o \in PrimaryOutcomes : PrimaryResponds(o)
  \/ GeminiTimesOut
  \/ \E o \in SecondaryOutcomes : SecondaryResponds(o)
  \/ \E c \in DOMAIN chains : TimerFires(c)
  \/ \E c \in DOMAIN chains, msg \in ErrorMsgs : ScoreFails(c, msg)
  \/ \E c \in DOMAIN chains : \E scores \in Answers(chains[c].batch) : ScoreSucceeds(c, scores)
  \/ \E c \in DOMAIN chains : \E i \in DOMAIN chains[c].vcalls, b \in BOOLEAN : VerifyResolves(c, i, b)
  \/ \E c \in DOMAIN chains : \E i \in DOMAIN chains[c].vcalls, msg \in ErrorMsgs : VerifyFails(c, i, msg)
  \/ togglePause
  \/ handleAnalysisComplete
  \/ \E approved \in BOOLEAN : handleDecision(approved)
  \/ handleManualExport
  \/ handleExport
  \/ restoreSession
  \/ clearSession

Spec == Init /\ [][Next]_vars

\* What the code itself schedules always happens: the 15 s timer of the image
\* analysis and the 1500 ms timer of the next batch.  Whether and when a
\* provider answers is not in the hands of the code.
SpecLive ==
  /\ Init
  /\ [][Next]_vars
  /\ WF_vars(ImageTick)
  /\ WF_vars(GeminiTimesOut)
  /\ WF_vars(\E c \in DOMAIN chains : TimerFires(c))

\* ================================================================== claims
Kws(items) == {items[i].originalText : i \in DOMAIN items}

IsPrefix(s, t) == Len(s) <= Len(t) /\ SubSeq(t, 1, Len(s)) = s

CountStatus(items, sts) == Cardinality({i \in DOMAIN items : items[i].status \in sts})

\* chartData of the dashboard, grouped by tier: "High Relevance" and "Machine
\* Verified" are the auto tier, "Needs Review" the manual tier, "Rejected" the
\* excluded tier.
auto_count == CountStatus(processedKeywords, {HIGH_RELEVANCE})
              + CountStatus(processedKeywords, {MACHINE_VERIFIED})

manual_count == CountStatus(processedKeywords, {MEDIUM_RELEVANCE})

excluded_count == CountStatus(processedKeywords, {REJECTED})

\* stats of the review interface
stats ==
  [approved |-> CountStatus(keywords, {APPROVED, HIGH_RELEVANCE, MACHINE_VERIFIED}),
   rejected |-> CountStatus(keywords, {REJECTED, LOW_RELEVANCE}),
   pending  |-> Len(reviewQueue)]

InFlight(c) == chains[c].pc \in {"scoring", "verifying"}

\* C1: every item is in exactly one tier and the tier counts add up to the
\* number of items, in the dashboard (manual + auto + excluded = processed
\* items), in the review (approved + rejected + pending = items) and for the
\* items of a batch whose deep checks are still running.
C1_TierCountsAddUp ==
  /\ manual_count + auto_count + excluded_count = Len(processedKeywords)
  /\ stats.approved + stats.rejected + stats.pending = Len(keywords)
  /\ \A c \in DOMAIN chains : \A i \in DOMAIN chains[c].items :
       TierOfStatus(chains[c].items[i].status) \in {"manual", "auto", "excluded"}

C1_Witness ==
  /\ step = "REVIEW"
  /\ CountStatus(processedKeywords, {MACHINE_VERIFIED}) > 0
  /\ CountStatus(processedKeywords, {REJECTED}) > 0
  /\ CountStatus(keywords, {APPROVED}) > 0

C3_OneScoringCallInFlight ==
  Cardinality({c \in DOMAIN chains : chains[c].pc = "scoring"}) <= 1

\* C4: once the scoring call of a batch has received 5 consecutive transient
\* errors the batch ends unscored: none of its keywords is recorded and the
\* progress stays as it was.
C4_FiveTransientErrorsEndBatch ==
  [][\A c \in DOMAIN chains :
       (chains[c].pc = "scoring" /\ Len(chains[c].call.waits) >= 5)
         => /\ Kws(processedKeywords') \cap Range(chains[c].batch) = {}
            /\ progress' = progress]_vars

\* C5: withRetry invokes the operation at most RETRIES + 1 times, waits
\* INITIAL_DELAY * 2^(k-1) before the k-th retry, retries only while retries
\* are left and rethrows the last error, with no further attempt, once they
\* are exhausted.
CallWellFormed(call) ==
  /\ call.attempts = Len(call.waits) + 1
  /\ call.attempts <= RETRIES + 1
  /\ call.retries = RETRIES - Len(call.waits)
  /\ \A k \in DOMAIN call.waits : call.waits[k] = INITIAL_DELAY * Pow2(k - 1)

C5_BoundedBackoff ==
  /\ \A c \in DOMAIN chains :
       /\ chains[c].pc = "scoring" => CallWellFormed(chains[c].call)
       /\ \A i \in DOMAIN chains[c].vcalls :
            ~chains[c].vcalls[i].done => CallWellFormed(chains[c].vcalls[i].call)
  /\ lastError # Null =>
       /\ CallWellFormed(lastError[1])
       /\ (isQuotaError(lastError[1].error) /\ ~lastError[1].retried)
            => lastError[1].attempts = RETRIES + 1
       /\ ~lastError[1].retried =>
            /\ lastError[1].batch \in failedBatches
            /\ \A c \in DOMAIN chains : chains[c].batch # lastError[1].batch

C5_Witness ==
  /\ lastError # Null
  /\ ~lastError[1].retried
  /\ isQuotaError(lastError[1].error)
  /\ lastError[1].attempts = 6
  /\ lastError[1].waits = <<2000, 4000, 8000, 16000, 32000>>

C7_AllOrNothing ==
  [][/\ IsPrefix(processedKeywords, processedKeywords')
     /\ (lastError' # Null /\ ~lastError'[1].retried)
          => processedKeywords' = processedKeywords
     /\ \A b \in failedBatches' : Kws(processedKeywords') \cap Range(b) = {}]_vars

C7_Witness ==
  /\ lastError # Null
  /\ ~lastError[1].retried
  /\ lastError[1].stage = "verifying"
  /\ lastError[1].resolved > 0
  /\ processedKeywords # <<>>

\* C8: the keywords of a failed batch stay available: each is in the queue,
\* in a batch in flight or recorded.
C8_FailedBatchRequeueable ==
  \A b \in failedBatches : \A k \in Range(b) :
    \/ k \in Range(queueRef)
    \/ \E c \in DOMAIN chains : k \in Range(chains[c].batch)
    \/ k \in Kws(processedKeywords)

\* C9: no batch is dispatched while the pause flag is set; a pause or resume
\* leaves every call in flight as it is; the items of a batch that completes
\* are recorded, paused or not.
C9_CooperativePause ==
  [][/\ Len(dispatched') > Len(dispatched) => ~isPausedRef'
     /\ isPausedRef' # isPausedRef =>
          \A c \in DOMAIN chains : InFlight(c) =>
            /\ c \in DOMAIN chains'
            /\ chains'[c].pc = chains[c].pc
            /\ chains'[c].batch = chains[c].batch
            /\ chains'[c].call = chains[c].call
            /\ chains'[c].vcalls = chains[c].vcalls
     /\ (Mounted /\ Len(recorded') > Len(recorded)) =>
          Len(processedKeywords') =
            Len(processedKeywords) + recorded'[Len(recorded')].count]_vars

C9_Witness ==
  /\ isPausedRef
  /\ \E i \in DOMAIN recorded : recorded[i].sawPause /\ recorded[i].count > 0
  /\ Len(queueRef) > 0
  /\ \A c \in DOMAIN chains : ~InFlight(c)

\* C10: the primary analysis has a 15 s deadline; the secondary backend is
\* called at most once per analysis, only after the primary timed out or
\* failed; its result is what the caller gets, and its failure is thrown to
\* the caller with no further backend tried.
C10_OneShotFallback ==
  /\ image.glmCalls <= 1
  /\ image.phase = "primary" => (image.glmCalls = 0 /\ image.elapsed <= GEMINI_TIMEOUT)
  /\ image.phase = "secondary" =>
       /\ image.glmCalls = 1
       /\ image.cause \in {"timeout", "no_text", "bad_json", "error", "no_api_key"}
       /\ image.cause = "timeout" => image.elapsed = GEMINI_TIMEOUT
  /\ image.phase = "returned" =>
       productContext = Some(ContextOf(AnalysisOf(IF image.glmCalls = 1 THEN "glm" ELSE "gemini")))
  /\ image.phase = "thrown" =>
       /\ image.glmCalls = 1
       /\ productContext = Null
       /\ status = "analyzing_image"

C10_Witness ==
  /\ image.phase = "secondary"
  /\ image.cause = "timeout"
  /\ image.elapsed = 15000

\* An external call is awaited: the image analysis by either backend, the
\* scoring of a batch or a deep check.
CallPending ==
  \/ image.phase \in {"primary", "secondary"}
  \/ \E c \in DOMAIN chains : InFlight(c)

\* C11: no external call is awaited forever: whenever a call is pending, a
\* timeout, a fallback, a retry or an error ends the wait, even when the
\* provider never answers.
C11_NoCallHangs == CallPending ~> ~CallPending

\* C12: a decision applied a second time to the same index leaves the status
\* of every item and all counts as they were after the first application.
C12_DecisionIdempotent ==
  [][\A a \in BOOLEAN :
       (/\ lastDecision # Null
        /\ lastDecision[1].index = currentIndex
        /\ lastDecision[1].approved = a
        /\ handleDecision(a))
         => /\ keywords' = keywords
            /\ stats' = stats]_vars

\* The items of the session, wherever they are held: classified and under
\* deep check, recorded by the dashboard, handed to the review.
ItemsNow ==
  Range(processedKeywords) \cup Range(keywords) \cup Range(results)
    \cup UNION {Range(chains[c].items) : c \in DOMAIN chains}

\* The tier of an item.  The client keeps no tier field: the tier is the band
\* of the status, and REJECTED on a score of the middle band is the human
\* rejection of a manual item.
ItemTier(item) ==
  CASE item.status \in {HIGH_RELEVANCE, MACHINE_VERIFIED} -> "auto"
    [] item.status \in {MEDIUM_RELEVANCE, APPROVED} -> "manual"
    [] item.status = LOW_RELEVANCE -> "excluded"
    [] item.status = REJECTED ->
         IF Classify(item.score) = MEDIUM_RELEVANCE THEN "manual" ELSE "excluded"
    [] OTHER -> "none"

TiersOf(k) == {ItemTier(it) : it \in {x \in ItemsNow : x.originalText = k}}

\* The batch recorded by this step, as it was classified and as it is recorded.
RecordedNow(c) ==
  /\ chains[c].pc = "verifying"
  /\ Len(recorded') > Len(recorded)
  /\ recorded'[Len(recorded')].batch = chains[c].batch

NewlyRecorded ==
  SubSeq(processedKeywords', Len(processedKeywords) + 1, Len(processedKeywords'))

\* C14: the deep check never changes an item of the manual tier, and
\* MACHINE_VERIFIED and the REJECTED written by the deep check only appear on
\* items the deep check processed, which come from the excluded tier.
C14_VerificationSparesManual ==
  [][/\ \A c \in DOMAIN chains :
          /\ \A i \in DOMAIN chains[c].vcalls :
                chains[c].items[i].status = LOW_RELEVANCE
          /\ RecordedNow(c) =>
                \A i \in DOMAIN chains[c].items :
                  IF chains[c].items[i].status = LOW_RELEVANCE
                  THEN NewlyRecorded[i].status \in {MACHINE_VERIFIED, REJECTED}
                  ELSE NewlyRecorded[i] = chains[c].items[i]
     /\ \A it \in ItemsNow' :
          /\ it.status = MACHINE_VERIFIED => Classify(it.score) = LOW_RELEVANCE
          /\ (it.status = REJECTED /\ Classify(it.score) # LOW_RELEVANCE) =>
               /\ Classify(it.score) = MEDIUM_RELEVANCE
               /\ it \in Range(keywords')
               /\ it \notin Range(processedKeywords')]_vars

C14_Witness ==
  \E i, j \in DOMAIN processedKeywords :
    /\ processedKeywords[i].status = MEDIUM_RELEVANCE
    /\ processedKeywords[j].status = MACHINE_VERIFIED
    /\ \E r \in DOMAIN recorded :
         {processedKeywords[i].originalText, processedKeywords[j].originalText}
           \subseteq Range(recorded[r].batch)

\* The evidence of the data model of an item.
EvidenceFields == {"similar_count", "vision_score"}

\* C15: a verified item of the excluded tier that matched is in the auto tier
\* with status verified_keep and its evidence fields populated; one that did
\* not match stays excluded with status verified_drop, unlike an excluded
\* item never checked.
C15_VerificationOutcome ==
  \A i \in DOMAIN processedKeywords :
    LET it == processedKeywords[i]
    IN Classify(it.score) = LOW_RELEVANCE =>
         \/ /\ it.status = MACHINE_VERIFIED
            /\ ItemTier(it) = "auto"
            /\ \A f \in EvidenceFields : f \in DOMAIN it /\ it[f] # Null
         \/ /\ it.status = REJECTED
            /\ ItemTier(it) = "excluded"

C13_OutOfRangeRejected ==
  [][(lastRequest' # Null /\ ~SrvInRange(lastRequest'[1].index)) =>
       /\ reply' = Some("IndexError")
       /\ UNCHANGED <<srvItems, manual_queue, current_manual_index, reviewScope,
                      batch_status, humanDecided, verified>>
       /\ SrvStatus' = SrvStatus]_vars

C13_Witness ==
  /\ lastRequest # Null
  /\ lastRequest[1].op = "action"
  /\ lastRequest[1].index = Len(manual_queue)
  /\ manual_queue # <<>>
  /\ reply = Some("IndexError")

\* C17: the pointer references a pending item of the manual tier, or is out of
\* range when no pending manual item remains; navigate moves it only to a
\* pending manual item.
PendingManual(i) ==
  /\ SrvInRange(i)
  /\ srvItems[manual_queue[i + 1]].status = "pending"
  /\ srvItems[manual_queue[i + 1]].tier = "manual"

C20_ConsistentRefresh ==
  lastRefresh # Null => lastRefresh[1].queue \in lastRefresh[1].seen

\* C21: a poll of the dashboard whose snapshot reports the verification as
\* Running does not bring the dashboard to status done, whatever the scoring
\* progress.
C21_DoneDeferredWhileVerifying ==
  [][(lastPoll' # Null /\ lastPoll'[1].batch_status = "Running") =>
       backendStage' = "polling"]_vars

C21_Witness ==
  /\ lastPoll # Null
  /\ lastPoll[1].batch_status = "Running"
  /\ lastPoll[1].status = "Scoring Complete"
  /\ backendStage = "polling"

\* C22: configureReview, with any combination of the three tiers, leaves the
\* tier, status, score and order of every item and all counts as they were;
\* only the scope of the review is set.
SrvCounts ==
  [c \in {"manual_count", "auto_count", "excluded_count", "verified_keep",
          "verified_drop", "manual_pending", "progress"} |-> SrvStatus[c]]

C22_ConfigureOnlySetsScope ==
  [][(backendStage = "dashboard" /\ backendStage' = "review") =>
       /\ srvItems' = srvItems
       /\ SrvCounts' = SrvCounts
       /\ batch_status' = batch_status
       /\ reviewScope' \in ReviewConfigs]_vars

C22_Witness ==
  /\ backendStage = "review"
  /\ pending = {"startVerification", "navigateTo"}
  /\ reviewScope = [include_manual |-> FALSE, include_auto |-> TRUE,
                    include_excluded |-> TRUE]
  /\ Len(manual_queue) = 2
  /\ srvItems = ScoredSession

\* C23: an export of a session with zero items produces no file.
C23_NoEmptyExport == exported # Null => exported[1].rows # <<>>

\* C24: the rows of an exported report are in original submission order
\* (the keywords are submitted in the order 1, 2, ...), whatever the order in
\* which the batches completed.
InSubmissionOrder(rows) ==
  \A i, j \in DOMAIN rows : i < j => rows[i].Keyword < rows[j].Keyword

C24_ExportInSubmissionOrder ==
  exported # Null => InSubmissionOrder(exported[1].rows)

\* C25: a restored session has the processed items that were saved, its
\* scoring queue (the batch dispatched at once included) is exactly the
\* submitted keywords without a processed item, in submission order, and no
\* keyword that had a processed item is dispatched again.
RECURSIVE Flat(_)
Flat(batches) ==
  IF batches = <<>> THEN <<>> ELSE Head(batches) \o Flat(Tail(batches))

Ascending(q) == \A i, j \in DOMAIN q : i < j => q[i] < q[j]

C25_ResumeRoundTrip ==
  [][/\ (restoredFrom = Null /\ restoredFrom' # Null) =>
          /\ savedSession # NoSession
          /\ restoredFrom'[1] = savedSession[1]
          /\ processedKeywords' = savedSession[1].processedKeywords
          /\ rawKeywords' = savedSession[1].rawKeywords
          /\ LET q == Flat(dispatched') \o queueRef'
             IN /\ Range(q) = Range(rawKeywords') \ Kws(processedKeywords')
                /\ Ascending(q)
     /\ restoredFrom' # Null =>
          \A b \in DOMAIN dispatched' :
            Range(dispatched'[b]) \cap Kws(restoredFrom'[1].processedKeywords) = {}]_vars

C25_Witness ==
  /\ restoredFrom # Null
  /\ restoredFrom[1].rawKeywords = UploadedKeywords
  /\ restoredFrom[1].processedKeywords # <<>>
  /\ Len(processedKeywords) = NumKeywords
  /\ status = "done"

\* C26: a pause or resume leaves the processed items and the saved session as
\* they were and takes no keyword out of the queue except into a dispatched
\* batch; only the reset (clearSession) clears the items or the saved session.
C26_PauseIsNotReset ==
  [][/\ togglePause =>
          /\ processedKeywords' = processedKeywords
          /\ savedSession' = savedSession
          /\ Flat(dispatched') \o queueRef' = Flat(dispatched) \o queueRef
     /\ (savedSession # NoSession /\ savedSession' = NoSession) => clearSession
     /\ (processedKeywords # <<>> /\ processedKeywords' = <<>>) => clearSession]_vars

\* C27: the step of a single Discard request does not clear the saved
\* session: clearing takes a separate confirmation step.
C27_ResetNeedsConfirmation == [][clearSession => savedSession' = savedSession]_vars

\* C30: a fresh upload starts the analysis of the uploaded image; it does not
\* take its product context from a session still in local storage.
C30_FreshUploadAnalysesImage ==
  [][handleFilesReady =>
       /\ productContext' = Null
       /\ image'.phase \in {"primary", "secondary"}]_vars

\* C28: when the 25 scores of the scenario (8 in 85..95, 9 in 31..79, 8 in
\* 5..28) are all scored without error, the counts are the numbers of scores
\* >= 80 (auto), strictly between 30 and 80 (manual) and <= 30 (excluded):
\* 8 auto, 9 manual and 8 excluded.
NumScores(lo, hi) ==
  Cardinality({i \in DOMAIN ScenarioScores :
                 lo <= ScenarioScores[i] /\ ScenarioScores[i] <= hi})

C28_TierCountsOfScores ==
  (status = "done" /\ failedBatches = {}) =>
    /\ auto_count = NumScores(HIGH_CUT, MAX_SCORE) /\ auto_count = 8
    /\ manual_count = NumScores(LOW_CUT + 1, HIGH_CUT - 1) /\ manual_count = 9
    /\ excluded_count = NumScores(0, LOW_CUT) /\ excluded_count = 8

\* C29: while the dashboard is mounted every submitted keyword is in exactly
\* one of the pending queue, a batch in flight and the processed list; when
\* the status is done the processed list holds one item for each.
Occurrences(k) ==
  Cardinality({i \in DOMAIN queueRef : queueRef[i] = k})
  + Cardinality({ci \in (DOMAIN chains) \X (1..BATCH_SIZE) :
                   /\ ci[2] \in DOMAIN chains[ci[1]].batch
                   /\ chains[ci[1]].batch[ci[2]] = k})
  + Cardinality({i \in DOMAIN processedKeywords : processedKeywords[i].originalText = k})

C29_NoKeywordLostOrDuplicated ==
  Mounted =>
    /\ \A k \in Range(rawKeywords) : Occurrences(k) = 1
    /\ status = "done" => Len(processedKeywords) = Len(rawKeywords)

\* C31: once scoring has completed and the verification phase of the server
\* is Idle, Complete or Error, the polling dashboard, whose polls succeed,
\* eventually enters status done.
C31_CompletionDeclared ==
  (/\ status = "polling"
   /\ isScoringDone(SrvStatus, Len(ScoredSession))
   /\ batch_status \in {"Idle", "Complete", "Error"})
    ~> (status = "done")

\* C32: however often the start effect runs again, api.analyze is called only
\* with a product context, never while a call is in flight and never after
\* one has succeeded, and the dashboard enters status polling only in the
\* step in which api.analyze succeeds.
C32_AnalyzeStartedOnce ==
  [][/\ analyzeCalls' > analyzeCalls =>
          /\ analyzeCalls = 0
          /\ analyzeSucceeded = 0
          /\ productContext # Null
          /\ status = "starting_backend"
     /\ (status # "polling" /\ status' = "polling") =>
          /\ analyzeCalls > 0
          /\ analyzeSucceeded' = analyzeSucceeded + 1
     /\ analyzeSucceeded' <= 1]_vars

\* A call of api.analyze is in flight and the start effect is due again.
C32_Witness ==
  /\ analyzeCalls = 1
  /\ hasStartedBackendRef
  /\ backendDue = 1
  /\ status = "starting_backend"

\* C33: a start step that failed is attempted again: a dashboard left in
\* status analyzing_image or starting_backend with no call in flight and no
\* effect due calls its collaborator again, or leaves that status.
C33_FailedStartRetried ==
  /\ (status = "analyzing_image" /\ imageCalls = 0 /\ EffectsDone)
       ~> (imageCalls > 0 \/ status # "analyzing_image")
  /\ (status = "starting_backend" /\ analyzeCalls = 0 /\ EffectsDone)
       ~> (analyzeCalls > 0 \/ status # "starting_backend")

Scored(s) == s.manual_count + s.auto_count + s.excluded_count

C37_ShownStateNeverOlder ==
  [][(backendStatus # Null /\ backendStatus' # Null) =>
        Scored(backendStatus'[1]) >= Scored(backendStatus[1])]_vars

\* C35: a decision of the local review changes exactly one item, the current
\* card, from MEDIUM_RELEVANCE to APPROVED or REJECTED, and the review queue
\* loses exactly that card; there is no decision on an empty queue.
Changed == {i \in DOMAIN keywords : keywords'[i] # keywords[i]}

C35_DecisionSettlesOneCard ==
  [][\A a \in BOOLEAN :
       handleDecision(a) =>
         /\ reviewQueue # <<>>
         /\ DOMAIN keywords' = DOMAIN keywords
         /\ Cardinality(Changed) = 1
         /\ \A i \in Changed :
              /\ keywords[i].status = MEDIUM_RELEVANCE
              /\ \A j \in 1..(i - 1) : keywords[j].status # MEDIUM_RELEVANCE
              /\ keywords'[i] =
                   [keywords[i] EXCEPT !.status = IF a THEN APPROVED ELSE REJECTED]
         /\ Len(reviewQueue') = Len(reviewQueue) - 1]_vars

\* A decision was taken and cards are left.
C35_Witness ==
  /\ step = "REVIEW"
  /\ lastDecision # Null
  /\ reviewQueue # <<>>
  /\ \E i \in DOMAIN keywords : keywords[i].status \in {APPROVED, REJECTED}

\* C36: restoring a saved session that cannot be parsed applies none of it:
\* keywords, image, processed items, product context and step are unchanged
\* and the step stays UPLOAD; the saved session is removed and the
\* saved-session indicator is cleared.  With no session stored restoreSession
\* takes no step.
C36_CorruptRestoreIsSafe ==
  [][restoreSession =>
       /\ savedSession # NoSession
       /\ ~JsonParses(savedSession) =>
            /\ UNCHANGED <<rawKeywords, image, processedKeywords, productContext,
                           step, restoredFrom, keywords, results, queueRef, status>>
            /\ step' = "UPLOAD"
            /\ savedSession' = NoSession
            /\ hasSavedSession' = FALSE]_vars

\* The alert of a failed restore was shown: the application is still in
\* UPLOAD with nothing restored, the stored session and the banner are gone.
C36_Witness ==
  /\ alerts # {}
  /\ step = "UPLOAD"
  /\ savedSession = NoSession
  /\ ~hasSavedSession
  /\ restoredFrom = Null
  /\ rawKeywords = <<>>

====
